---- MODULE Spec2Model ----
(***************************************************************************)
(* Model of the museum ETL pipeline (src/src/etl/pipeline.py) and of the   *)
(* SQLAlchemy session it writes through (src/src/db/session.py,            *)
(* src/src/db/models.py).                                                  *)
(*                                                                         *)
(* The store is three tables kept as sequences of rows; a row's id is its  *)
(* position.  `db` is the committed state.  During persistence the session *)
(* of _run_async_etl has a transaction whose view of the tables is `tx`    *)
(* (committed rows plus rows flushed in this transaction), objects added   *)
(* with db.add() and not flushed yet in `pending`, and `active`, which is  *)
(* FALSE after a failed flush until Session.rollback() is called.          *)
(* The session is built with autoflush=False, so a query sees `tx` only.   *)
(*                                                                         *)
(* City names are tuples of characters so that lower() and the substring   *)
(* test of _get_or_create_city can be computed.                            *)
(***************************************************************************)
EXTENDS Integers, Sequences, FiniteSets, TLC

\* ------------------------------------------------------------------ bounds
MaxCandidates == 2
MaxRepeat == 4
MaxRuns == 2
MaxFaults == 1

\* ------------------------------------------------------- program constants
DefaultPopulationYear == 2023

\* --------------------------------------------------------------- city names
Paris == <<"P", "a", "r", "i", "s">>
NewYork == <<"N", "e", "w", " ", "Y", "o", "r", "k">>

UpperChars == <<"A", "B", "C", "D", "E", "F", "G", "H", "I", "J", "K", "L",
    "M", "N", "O", "P", "Q", "R", "S", "T", "U", "V", "W", "X", "Y", "Z">>

LowerChars == <<"a", "b", "c", "d", "e", "f", "g", "h", "i", "j", "k", "l",
    "m", "n", "o", "p", "q", "r", "s", "t", "u", "v", "w", "x", "y", "z">>

\* str.lower() on one character
LowerChar(c) ==
  IF \E i \in 1..Len(UpperChars) : UpperChars[i] = c
  THEN LowerChars[CHOOSE i \in 1..Len(UpperChars) : UpperChars[i] = c]
  ELSE c

\* str.lower()
Lower(s) == [i \in 1..Len(s) |-> LowerChar(s[i])]

\* Python's `a in b` on strings
Contains(a, b) ==
  \E k \in 0..(Len(b) - Len(a)) : \A i \in 1..Len(a) : b[k + i] = a[i]

\* ------------------------------------------------------------ upstream data
Candidate(n, c, k, v, y) ==
  [name |-> n, city |-> c, country |-> k, visitors |-> v, year |-> y]

\* The candidate records the museum page can yield.  Every record passed the
\* row extractor: non-empty name, city, country and at least 2,000,000 visitors.
CandidatePool ==
  { Candidate("Louvre", Paris, "France", 9600000, 2023),
    Candidate("Louvre", Paris, "France", 9600000, 2022),
    Candidate("Orsay", Paris, "France", 3200000, 2023),
    Candidate("Met", NewYork, "United States", 6479548, 2023) }

\* Two museums of one city, for the runs over pages that repeat rows.
RepeatPool ==
  { Candidate("Louvre", Paris, "France", 9600000, 2023),
    Candidate("Orsay", Paris, "France", 3200000, 2023) }

SeqsUpTo(S, n) == UNION { [1..k -> S] : k \in 0..n }

\* A population record; found = FALSE is the empty dict {} (falsy in Python).
EmptyData == [found |-> FALSE, population |-> 0, year |-> 0, wikidata_id |-> "none"]

PopulationData(p, y, q) ==
  [found |-> TRUE, population |-> p, year |-> y, wikidata_id |-> q]

\* search_city_by_name: the identifier the source holds for a city name.  The
\* query filters on the name only; the country argument is not used.
SearchCityByName(city_name, country) ==
  CASE city_name = Paris -> "Q90"
    [] city_name = NewYork -> "Q60"
    [] OTHER -> "Q42462"

\* fetch_city_population: the most recent population statement of an identifier.
FetchCityPopulation(qid) ==
  CASE qid = "Q90" -> PopulationData(11000000, 2023, "Q90")
    [] qid = "Q60" -> PopulationData(8336817, 2021, "Q60")
    [] OTHER -> PopulationData(141685, 2020, qid)

\* -------------------------------------------------------------------- store
EmptyStore == [cities |-> <<>>, museums |-> <<>>, stats |-> <<>>]
NoPending == [cities |-> <<>>, museums |-> <<>>, stats |-> <<>>]

\* A store left by an earlier deployment: one city with its population, one
\* museum and its stat.
SeededStore ==
  [cities |-> << [id |-> 1, name |-> Paris, country |-> "France",
                  population |-> 11000000, population_year |-> 2023,
                  wikidata_id |-> "Q90"] >>,
   museums |-> << [id |-> 1, name |-> "Louvre", city_id |-> 1] >>,
   stats |-> << [museum_id |-> 1, year |-> 2023, visitors |-> 9600000] >>]

InitialStores == {EmptyStore, SeededStore}

Min(S) == CHOOSE x \in S : \A y \in S : x <= y

\* ------------------------------------------------------------------ session
\* A City query that matches no row.
CityQuery_Blind(t, city_name, country) == 0

\* db.query(City).filter(City.name == ..., City.country == ...).first():
\* the id of a matching row, 0 for None.
CityQuery(t, city_name, country) ==
  LET m == {i \in 1..Len(t.cities) :
              t.cities[i].name = city_name /\ t.cities[i].country = country}
  IN IF m = {} THEN 0 ELSE t.cities[Min(m)].id

\* db.query(Museum).filter(Museum.name == ..., Museum.city_id == ...).first()
MuseumQuery(t, museum_name, city_id) ==
  LET m == {i \in 1..Len(t.museums) :
              t.museums[i].name = museum_name /\ t.museums[i].city_id = city_id}
  IN IF m = {} THEN 0 ELSE t.museums[Min(m)].id

\* db.query(MuseumStat).filter(MuseumStat.museum_id == museum.id).first():
\* TRUE when a row exists.
StatQuery(t, museum_id) ==
  \E i \in 1..Len(t.stats) : t.stats[i].museum_id = museum_id

\* uq_museum_name_city on museums and uq_museum_year on museum_stats; the
\* cities table declares no unique constraint.
ViolatesConstraints(t) ==
  \/ \E i, j \in 1..Len(t.museums) :
        /\ i < j
        /\ t.museums[i].name = t.museums[j].name
        /\ t.museums[i].city_id = t.museums[j].city_id
  \/ \E i, j \in 1..Len(t.stats) :
        /\ i < j
        /\ t.stats[i].museum_id = t.stats[j].museum_id
        /\ t.stats[i].year = t.stats[j].year

\* The tables after every pending object is inserted.
WithPending(t, p) ==
  [cities |-> t.cities \o p.cities,
   museums |-> t.museums \o p.museums,
   stats |-> t.stats \o p.stats]

\* Session.flush(): INSERT every pending object.  A store error or a
\* constraint violation rolls the database transaction back and leaves the
\* session transaction inactive; every later statement and commit() then
\* raise until Session.rollback() is called.
Flush(s, committed, fault) ==
  IF ~s.active
  THEN [s |-> s, raised |-> TRUE]
  ELSE IF fault \/ ViolatesConstraints(WithPending(s.tx, s.pending))
       THEN [s |-> [tx |-> committed, pending |-> s.pending, active |-> FALSE],
             raised |-> TRUE]
       ELSE [s |-> [tx |-> WithPending(s.tx, s.pending), pending |-> NoPending,
                    active |-> TRUE],
             raised |-> FALSE]

\* Session.rollback(): the whole transaction of the session is undone, which
\* is everything since the session was opened; pending objects are expunged.
Rollback(s, committed) ==
  [tx |-> committed, pending |-> NoPending, active |-> TRUE]

\* ------------------------------------------------- dict of population data
\* city_populations is a Python dict: a sequence of entries in insertion
\* order; assigning an existing key keeps its position.
DictHas(d, k) == \E i \in 1..Len(d) : d[i].key = k

DictGet(d, k) ==
  IF DictHas(d, k) THEN d[CHOOSE i \in 1..Len(d) : d[i].key = k].data
  ELSE EmptyData

DictSet(d, k, v) ==
  IF DictHas(d, k)
  THEN [i \in 1..Len(d) |-> IF d[i].key = k THEN [key |-> k, data |-> v] ELSE d[i]]
  ELSE Append(d, [key |-> k, data |-> v])

\* --------------------------------------------------------- _get_or_create_city
\* The predicate of the partial match on city names.
PartialMatch(city_name, key) ==
  Contains(Lower(city_name), Lower(key)) \/ Contains(Lower(key), Lower(city_name))

\* Lines 98-105: the exact key first; when that record is falsy, the record of
\* the first key in dict order that matches partially (the scan stops there,
\* whatever that record holds).
MatchPopulation(city_populations, city_name) ==
  LET exact == DictGet(city_populations, city_name)
      hits == {i \in 1..Len(city_populations) :
                 PartialMatch(city_name, city_populations[i].key)}
  IN IF exact.found THEN exact
     ELSE IF hits = {} THEN exact
     ELSE city_populations[Min(hits)].data

\* The City object of lines 109-116.
NewCity(id, museum_data, population_data) ==
  [id |-> id,
   name |-> museum_data.city,
   country |-> museum_data.country,
   population |-> IF population_data.found THEN population_data.population ELSE 0,
   population_year |-> IF population_data.found THEN population_data.year
                       ELSE DefaultPopulationYear,
   wikidata_id |-> IF population_data.found THEN population_data.wikidata_id
                   ELSE "none"]

\* _get_or_create_city without the check of lines 89-95: a City is always
\* created.
GetOrCreateCity_NoCheck(s, committed, museum_data, city_populations, fault) ==
  IF ~s.active
  THEN [s |-> s, raised |-> TRUE, city_id |-> 0]
  ELSE LET city == NewCity(Len(s.tx.cities) + 1, museum_data,
                           MatchPopulation(city_populations, museum_data.city))
           f == Flush([s EXCEPT !.pending.cities = Append(@, city)],
                      committed, fault = "city_flush")
       IN [s |-> f.s, raised |-> f.raised,
           city_id |-> IF f.raised THEN 0 ELSE city.id]

\* _get_or_create_city as an upsert: the population fields of an existing
\* City are overwritten with the record the resolver holds for its name.
GetOrCreateCity_Refresh(s, committed, museum_data, city_populations, fault) ==
  IF ~s.active
  THEN [s |-> s, raised |-> TRUE, city_id |-> 0]
  ELSE LET existing_city == CityQuery(s.tx, museum_data.city, museum_data.country)
           population_data == MatchPopulation(city_populations, museum_data.city)
       IN IF existing_city # 0
          THEN [s |-> [s EXCEPT !.tx.cities =
                         [i \in 1..Len(@) |->
                            IF @[i].id = existing_city /\ population_data.found
                            THEN NewCity(@[i].id, museum_data, population_data)
                            ELSE @[i]]],
                raised |-> FALSE, city_id |-> existing_city]
          ELSE LET city == NewCity(Len(s.tx.cities) + 1, museum_data, population_data)
                   f == Flush([s EXCEPT !.pending.cities = Append(@, city)],
                              committed, fault = "city_flush")
               IN [s |-> f.s, raised |-> f.raised,
                   city_id |-> IF f.raised THEN 0 ELSE city.id]

\* _get_or_create_city.  Nothing is caught here: an exception of the query or
\* of the flush reaches the loop of _run_async_etl, which does not roll back.
GetOrCreateCity(s, committed, museum_data, city_populations, fault) ==
  IF ~s.active
  THEN [s |-> s, raised |-> TRUE, city_id |-> 0]
  ELSE LET existing_city == CityQuery(s.tx, museum_data.city, museum_data.country)
       IN IF existing_city # 0
          THEN [s |-> s, raised |-> FALSE, city_id |-> existing_city]
          ELSE LET city == NewCity(Len(s.tx.cities) + 1, museum_data,
                                   MatchPopulation(city_populations, museum_data.city))
                   f == Flush([s EXCEPT !.pending.cities = Append(@, city)],
                              committed, fault = "city_flush")
               IN [s |-> f.s, raised |-> f.raised,
                   city_id |-> IF f.raised THEN 0 ELSE city.id]

\* -------------------------------------------------------------- _create_museum
\* _create_museum without the check of lines 131-138: a Museum is always
\* added and flushed.
CreateMuseum_NoCheck(s, committed, museum_data, city_id, fault) ==
  IF ~s.active \/ fault = "museum_query"
  THEN [s |-> Rollback(s, committed), museum_id |-> 0]
  ELSE LET museum == [id |-> Len(s.tx.museums) + 1,
                      name |-> museum_data.name, city_id |-> city_id]
           f == Flush([s EXCEPT !.pending.museums = Append(@, museum)],
                      committed, fault = "museum_flush")
       IN IF f.raised
          THEN [s |-> Rollback(f.s, committed), museum_id |-> 0]
          ELSE [s |-> f.s, museum_id |-> museum.id]

\* The whole body is in a try block whose handler calls db.rollback() and
\* returns None (museum_id 0).
CreateMuseum(s, committed, museum_data, city_id, fault) ==
  IF ~s.active \/ fault = "museum_query"
  THEN [s |-> Rollback(s, committed), museum_id |-> 0]
  ELSE LET existing_museum == MuseumQuery(s.tx, museum_data.name, city_id)
       IN IF existing_museum # 0
          THEN [s |-> s, museum_id |-> existing_museum]
          ELSE LET museum == [id |-> Len(s.tx.museums) + 1,
                              name |-> museum_data.name, city_id |-> city_id]
                   f == Flush([s EXCEPT !.pending.museums = Append(@, museum)],
                              committed, fault = "museum_flush")
               IN IF f.raised
                  THEN [s |-> Rollback(f.s, committed), museum_id |-> 0]
                  ELSE [s |-> f.s, museum_id |-> museum.id]

\* -------------------------------------------------------- _create_museum_stats
\* The stat is added to the session and not flushed.  The handler of the try
\* block calls db.rollback().
CreateMuseumStats(s, committed, museum_id, museum_data, fault) ==
  IF ~s.active \/ fault = "stat_query"
  THEN [s |-> Rollback(s, committed), failed |-> TRUE]
  ELSE IF StatQuery(s.tx, museum_id)
       THEN [s |-> s, failed |-> FALSE]
       ELSE LET stat == [museum_id |-> museum_id, year |-> museum_data.year,
                         visitors |-> museum_data.visitors]
            IN [s |-> [s EXCEPT !.pending.stats = Append(@, stat)],
                failed |-> FALSE]

\* ------------------------------------------- loop body of _run_async_etl
\* Lines 56-72 for one candidate.  raised: an exception reached the handler
\* of the loop; failed: an exception was raised anywhere in the body.
ProcessCandidateBody(s, committed, museum_data, city_populations, fault) ==
  LET c == GetOrCreateCity(s, committed, museum_data, city_populations, fault)
      m == CreateMuseum(c.s, committed, museum_data, c.city_id, fault)
      st == CreateMuseumStats(m.s, committed, m.museum_id, museum_data, fault)
  IN IF c.raised
     THEN [s |-> c.s, city |-> FALSE, museum_id |-> 0,
           raised |-> TRUE, failed |-> TRUE]
     ELSE IF m.museum_id = 0
          THEN [s |-> m.s, city |-> TRUE, museum_id |-> 0,
                raised |-> FALSE, failed |-> TRUE]
          ELSE [s |-> st.s, city |-> TRUE, museum_id |-> m.museum_id,
                raised |-> FALSE, failed |-> st.failed]

\* A loop without the handler of lines 70-72: the exception of one candidate
\* leaves _run_async_etl and run_etl returns the error summary.
LoopHandler_Abort(raised, res) ==
  IF raised
  THEN [pc |-> "done",
        result |-> [status |-> "error", museums |-> 0, cities |-> 0,
                    error |-> "OperationalError"]]
  ELSE [pc |-> "persisting", result |-> res]

\* Lines 70-72: the handler of the loop logs and continues; the stage and the
\* summary are left as they are.
LoopHandler(raised, res) == [pc |-> "persisting", result |-> res]

\* ------------------------------------- _fetch_city_populations_for_museums
\* Lines 190-202: the set of (city, country) pairs, pairs with an empty city
\* or country left out.
UniqueCities(data) ==
  { <<data[i].city, data[i].country>> :
      i \in {j \in 1..Len(data) : data[j].city # <<>> /\ data[j].country # ""} }

\* The orders in which a Python set of pairs can be iterated.
Orders(S) ==
  { o \in [1..Cardinality(S) -> S] : \A i, j \in 1..Cardinality(S) : i # j => o[i] # o[j] }

\* The record built from a stored City row (lines 213-217): a non-empty dict.
CachedData(row) ==
  [found |-> TRUE, population |-> row.population, year |-> row.population_year,
   wikidata_id |-> row.wikidata_id]

\* Lines 205-218: the pairs in iteration order; a pair with a City row puts
\* the row's fields under the city NAME.
RECURSIVE CheckDatabase(_, _, _)
CheckDatabase(order, committed, d) ==
  IF order = <<>> THEN d
  ELSE LET city_name == Head(order)[1]
           id == CityQuery(committed, city_name, Head(order)[2])
       IN IF id = 0
          THEN CheckDatabase(Tail(order), committed, d)
          ELSE CheckDatabase(Tail(order), committed,
                             DictSet(d, city_name, CachedData(committed.cities[id])))

\* Lines 205-211: the pairs without a City row, in iteration order.
CitiesToFetch(order, committed) ==
  SelectSeq(order, LAMBDA pair : CityQuery(committed, pair[1], pair[2]) = 0)

\* What can happen to the two-step lookup of one city.  Both client functions
\* catch their own exceptions (a timeout included) and return nothing.
LookupOutcomes ==
  {"found", "no_qid", "no_population", "search_timeout", "population_timeout"}

\* fetch_single_city_population (lines 227-248): (city_name, data).
FetchSingleCityPopulation(city_name, country, outcome) ==
  IF outcome = "found"
  THEN <<city_name, FetchCityPopulation(SearchCityByName(city_name, country))>>
  ELSE <<city_name, EmptyData>>

\* Lines 272-277: the results are stored under the city NAME, in the order
\* of cities_to_fetch.
RECURSIVE ProcessResults(_, _, _)
ProcessResults(to_fetch, outcome, d) ==
  IF to_fetch = <<>> THEN d
  ELSE LET r == FetchSingleCityPopulation(Head(to_fetch)[1], Head(to_fetch)[2],
                                          outcome[Head(to_fetch)])
       IN ProcessResults(Tail(to_fetch), outcome, DictSet(d, r[1], r[2]))

\* The mapping that _fetch_city_populations_for_museums returns when no store
\* lookup raises.
FetchCityPopulationsForMuseums(order, committed, outcome) ==
  ProcessResults(CitiesToFetch(order, committed), outcome,
                 CheckDatabase(order, committed, <<>>))

\* -------------------------------------------------------------- run summary
NoResult == [status |-> "none", museums |-> 0, cities |-> 0, error |-> ""]

\* The summary of lines 43-48 with the status of a completed run.
NoDataSummary_Ok ==
  [status |-> "ok", museums |-> 0, cities |-> 0,
   error |-> "No museum data available from Wikidata"]

\* Lines 43-48.
NoDataSummary ==
  [status |-> "error", museums |-> 0, cities |-> 0,
   error |-> "No museum data available from Wikidata"]

\* Line 29: the handler of run_etl, with str(e).
ErrorSummary(e) == [status |-> "error", museums |-> 0, cities |-> 0, error |-> e]

\* Lines 76-80.
OkSummary(m, c) == [status |-> "ok", museums |-> m, cities |-> c, error |-> ""]

\* -------------------------------------------------------------------- state
VARIABLES
  upstream,          \* the candidate records the museum page yields when fetched
  db,                \* committed tables
  s,                 \* session of the persistence stage: tx, pending, active
  pc,                \* stage of run_etl
  museums_data,      \* result of fetch_most_visited_museums
  city_populations,  \* result of _fetch_city_populations_for_museums
  idx,               \* position of the loop over museums_data
  museums_processed,
  cities_processed,
  result,            \* the summary returned by run_etl
  runNo,             \* number of the current run
  faults,            \* store errors injected so far
  obs,               \* what happened in the current run
  prev,              \* the store and outcome at the end of the previous run
  fan,               \* the batched lookups of the resolver, step by step
  conc,              \* two runs that overlap on one store, statement by statement
  http,              \* the requests served by the HTTP API, with their responses
  call               \* one call of the row extractor: its cells and what it gave

\* The variables of a run of the pipeline.
etl_vars == <<upstream, db, s, pc, museums_data, city_populations, idx,
              museums_processed, cities_processed, result, runNo, faults, obs,
              prev>>

vars == <<etl_vars, fan, conc, http, call>>

ClosedSession(committed) == [tx |-> committed, pending |-> NoPending, active |-> TRUE]

NoObs ==
  [fetch |-> "not_run", escaped |-> "none", fetched |-> {}, found |-> {},
   ok |-> {}, failed |-> {}, fault |-> FALSE, last_fault |-> "none",
   museum_id |-> 0]

\* The row extractor is not called.
NoCall == [cells |-> <<>>, out |-> [kind |-> "none"], done |-> FALSE]

\* The resolver is not in its lookup loop.
IdleFan ==
  [n |-> 0, i |-> 0, phase |-> "idle", task |-> <<>>, all_results |-> <<>>,
   pauses |-> 0]

\* No second run is active.
IdleConc == [db |-> EmptyStore, seq |-> [cities |-> 0, museums |-> 0],
             run |-> <<>>, raced |-> FALSE, both_passed |-> FALSE]

NoPrev == [valid |-> FALSE, clean |-> FALSE, status |-> "none", cities |-> 0, museums |-> 0]

Init ==
  /\ upstream \in SeqsUpTo(CandidatePool, MaxCandidates)
  /\ db \in InitialStores
  /\ s = ClosedSession(db)
  /\ pc = "idle"
  /\ museums_data = <<>>
  /\ city_populations = <<>>
  /\ idx = 1
  /\ museums_processed = 0
  /\ cities_processed = 0
  /\ result = NoResult
  /\ runNo = 1
  /\ faults = 0
  /\ obs = NoObs
  /\ prev = NoPrev
  /\ fan = IdleFan
  /\ conc = IdleConc
  /\ http = <<>>
  /\ call = NoCall

\* ------------------------------------------------------------------ actions
\* run_etl, line 19: Base.metadata.create_all.  An exception goes to the
\* handler of run_etl.
CreateAll ==
  /\ pc = "idle"
  /\ \E fault \in BOOLEAN :
       /\ fault => faults < MaxFaults
       /\ faults' = IF fault THEN faults + 1 ELSE faults
       /\ pc' = IF fault THEN "done" ELSE "fetching"
       /\ result' = IF fault THEN ErrorSummary("OperationalError") ELSE result
       /\ obs' = IF fault THEN [obs EXCEPT !.escaped = "create_all", !.fault = TRUE]
                 ELSE obs
  /\ UNCHANGED <<upstream, db, s, museums_data, city_populations, idx,
                 museums_processed, cities_processed, runNo, prev, fan, conc, http, call>>

\* The fields that Settings declares (config.py, lines 5-9).
SettingsFields ==
  {"app_env", "db_url", "wikipedia_api_endpoint", "wikidata_sparql_endpoint"}

\* The attribute of settings that wikipedia.py, line 42, reads to get the
\* endpoint of the museum page.
EndpointAttribute == "wikipedia_api_url"

\* What the museum source would answer to the HTTP call of the client.
FetchCauses == {"ok", "raised", "timeout", "non_2xx", "no_table"}

\* _fetch_wikipedia_page_content: reading an attribute that Settings does
\* not declare raises AttributeError before the HTTP call is made; the
\* handler of line 53 turns every exception into the empty content.
FetchWikipediaPageContent(cause, page) ==
  IF EndpointAttribute \notin SettingsFields THEN <<>>
  ELSE IF cause = "ok" THEN page ELSE <<>>

\* How the fetch of the client ended.
FetchOutcome(cause) ==
  IF EndpointAttribute \notin SettingsFields THEN "attribute_error" ELSE cause

\* fetch_most_visited_museums: the empty list for the empty content (lines
\* 15-17), else the records parsed from the content.
FetchMostVisitedMuseums(cause, page) ==
  LET page_content == FetchWikipediaPageContent(cause, page)
  IN IF page_content = <<>> THEN <<>> ELSE page_content

\* _run_async_etl without the test of lines 41-48: the run goes on to the
\* resolver whatever the fetch returned.
FetchMuseums_NoCheck ==
  /\ pc = "fetching"
  /\ \E replaced \in BOOLEAN : \E cause \in FetchCauses :
       /\ museums_data' = IF replaced THEN upstream
                          ELSE FetchMostVisitedMuseums(cause, upstream)
       /\ obs' = [obs EXCEPT
                    !.fetch = IF replaced THEN "replaced" ELSE FetchOutcome(cause)]
       /\ result' = result
       /\ pc' = "resolving"
  /\ UNCHANGED <<upstream, db, s, city_populations, idx, museums_processed,
                 cities_processed, runNo, faults, prev, fan, conc, http, call>>

\* _run_async_etl, lines 39-48.  replaced: the name fetch_most_visited_museums
\* of the pipeline is bound to a function that returns the candidate records
\* directly, as the tests of the pipeline do
\* (patch('src.etl.pipeline.fetch_most_visited_museums')); otherwise the
\* client of wikipedia.py runs.
FetchMuseums ==
  /\ pc = "fetching"
  /\ \E replaced \in BOOLEAN : \E cause \in FetchCauses :
       LET data == IF replaced THEN upstream
                   ELSE FetchMostVisitedMuseums(cause, upstream)
       IN /\ museums_data' = data
          /\ obs' = [obs EXCEPT
                       !.fetch = IF replaced THEN "replaced" ELSE FetchOutcome(cause)]
          /\ IF data = <<>>
             THEN /\ result' = NoDataSummary
                  /\ pc' = "done"
             ELSE /\ result' = result
                  /\ pc' = "resolving"
  /\ UNCHANGED <<upstream, db, s, city_populations, idx, museums_processed,
                 cities_processed, runNo, faults, prev, fan, conc, http, call>>

\* _run_async_etl, line 51 and the opening of the session at line 54.  The
\* store lookups of lines 207-208 are outside every try block: an exception
\* there leaves _run_async_etl and reaches the handler of run_etl.
ResolvePopulations ==
  /\ pc = "resolving"
  /\ \E order \in Orders(UniqueCities(museums_data)) :
     \E outcome \in [UniqueCities(museums_data) -> LookupOutcomes] :
     \E fault \in BOOLEAN :
       /\ fault => faults < MaxFaults
       /\ faults' = IF fault THEN faults + 1 ELSE faults
       /\ IF fault
          THEN /\ result' = ErrorSummary("OperationalError")
               /\ pc' = "done"
               /\ obs' = [obs EXCEPT !.escaped = "resolver", !.fault = TRUE]
               /\ UNCHANGED <<city_populations, s>>
          ELSE LET to_fetch == CitiesToFetch(order, db)
               IN /\ city_populations' = FetchCityPopulationsForMuseums(order, db, outcome)
                  /\ obs' = [obs EXCEPT
                               !.fetched = {to_fetch[i] : i \in 1..Len(to_fetch)},
                               !.found = {to_fetch[i] : i \in
                                            {j \in 1..Len(to_fetch) :
                                               outcome[to_fetch[j]] = "found"}}]
                  /\ s' = ClosedSession(db)
                  /\ pc' = "persisting"
                  /\ result' = result
  /\ idx' = 1
  /\ museums_processed' = 0
  /\ cities_processed' = 0
  /\ UNCHANGED <<upstream, db, museums_data, runNo, prev, fan, conc, http, call>>

\* The store errors that can be injected into the body of the loop.
Faults == {"none", "city_flush", "museum_query", "museum_flush", "stat_query"}

\* _run_async_etl, lines 55-72: one iteration of the loop.
ProcessCandidate ==
  /\ pc = "persisting"
  /\ idx <= Len(museums_data)
  /\ \E fault \in Faults :
       LET r == ProcessCandidateBody(s, db, museums_data[idx], city_populations, fault)
           h == LoopHandler(r.raised, result)
       IN /\ fault # "none" =>
               /\ faults < MaxFaults
               /\ r # ProcessCandidateBody(s, db, museums_data[idx],
                                           city_populations, "none")
          /\ faults' = IF fault = "none" THEN faults ELSE faults + 1
          /\ s' = r.s
          /\ cities_processed' = IF r.city THEN cities_processed + 1 ELSE cities_processed
          /\ museums_processed' = IF r.museum_id # 0 THEN museums_processed + 1
                                  ELSE museums_processed
          /\ pc' = h.pc
          /\ result' = h.result
          /\ obs' = [obs EXCEPT
                       !.ok = IF r.failed THEN @ ELSE @ \cup {idx},
                       !.failed = IF r.failed THEN @ \cup {idx} ELSE @,
                       !.fault = @ \/ fault # "none",
                       !.last_fault = fault,
                       !.museum_id = r.museum_id]
  /\ idx' = idx + 1
  /\ UNCHANGED <<upstream, db, museums_data, city_populations, runNo, prev, fan, conc, http, call>>

\* _run_async_etl, lines 74-80: db.commit() flushes what is pending and
\* commits; the session is closed when the with block is left.  An exception
\* of commit() leaves _run_async_etl and reaches the handler of run_etl.
Commit ==
  /\ pc = "persisting"
  /\ idx > Len(museums_data)
  /\ \E fault \in BOOLEAN :
       LET f == Flush(s, db, fault)
       IN /\ fault => faults < MaxFaults /\ s.active
          /\ faults' = IF fault THEN faults + 1 ELSE faults
          /\ IF f.raised
             THEN /\ db' = db
                  /\ result' = ErrorSummary(IF ~s.active THEN "PendingRollbackError"
                                            ELSE IF fault THEN "OperationalError"
                                            ELSE "IntegrityError")
                  /\ obs' = [obs EXCEPT !.escaped = "commit", !.fault = @ \/ fault]
             ELSE /\ db' = f.s.tx
                  /\ result' = OkSummary(museums_processed, cities_processed)
                  /\ obs' = obs
          /\ s' = ClosedSession(db')
  /\ pc' = "done"
  /\ UNCHANGED <<upstream, museums_data, city_populations, idx,
                 museums_processed, cities_processed, runNo, prev, fan, conc, http, call>>

\* The next call of run_etl, after the previous one has returned.
NextRun ==
  /\ pc = "done"
  /\ runNo < MaxRuns
  /\ runNo' = runNo + 1
  /\ prev' = [valid |-> TRUE,
              clean |-> ~obs.fault /\ obs.fetch \in {"ok", "replaced"},
              status |-> result.status,
              cities |-> Len(db.cities),
              museums |-> Len(db.museums)]
  /\ pc' = "idle"
  /\ museums_data' = <<>>
  /\ city_populations' = <<>>
  /\ idx' = 1
  /\ museums_processed' = 0
  /\ cities_processed' = 0
  /\ result' = NoResult
  /\ obs' = NoObs
  /\ UNCHANGED <<upstream, db, s, faults, fan, conc, http, call>>

Next ==
  \/ CreateAll
  \/ FetchMuseums
  \/ ResolvePopulations
  \/ ProcessCandidate
  \/ Commit
  \/ NextRun

Spec == Init /\ [][Next]_vars

\* Runs over pages of up to MaxRepeat rows drawn from RepeatPool, on a store
\* that starts empty.
InitRepeat ==
  /\ upstream \in SeqsUpTo(RepeatPool, MaxRepeat)
  /\ db = EmptyStore
  /\ s = ClosedSession(db)
  /\ pc = "idle"
  /\ museums_data = <<>>
  /\ city_populations = <<>>
  /\ idx = 1
  /\ museums_processed = 0
  /\ cities_processed = 0
  /\ result = NoResult
  /\ runNo = 1
  /\ faults = 0
  /\ obs = NoObs
  /\ prev = NoPrev
  /\ fan = IdleFan
  /\ conc = IdleConc
  /\ http = <<>>
  /\ call = NoCall

SpecRepeat == InitRepeat /\ [][Next]_vars

\* Runs over pages whose cities share a name or contain one another's name.
York == <<"Y", "o", "r", "k">>

\* The rows of a page, in page order.
MatchPool ==
  << Candidate("Met", NewYork, "United States", 6479548, 2023),
     Candidate("Railway", York, "United Kingdom", 2100000, 2023),
     Candidate("Louvre", Paris, "France", 9600000, 2023),
     Candidate("Texas", Paris, "United States", 2500000, 2023) >>

MaxMatch == 2

\* A store whose City row holds population fields older than what the
\* population source answers now.
OlderStore ==
  [cities |-> << [id |-> 1, name |-> Paris, country |-> "France",
                  population |-> 2100000, population_year |-> 2019,
                  wikidata_id |-> "Q90"] >>,
   museums |-> <<>>,
   stats |-> <<>>]

\* The rows of the page at the positions I, in page order.
RowsAt(I) ==
  LET k == Cardinality(I)
      at == CHOOSE f \in [1..k -> I] : \A a, b \in 1..k : a < b => f[a] < f[b]
  IN [i \in 1..k |-> MatchPool[at[i]]]

\* The pages that keep at most MaxMatch rows of the pool.
MatchPages ==
  { RowsAt(I) : I \in {J \in SUBSET (1..Len(MatchPool)) : Cardinality(J) <= MaxMatch} }

InitMatch ==
  /\ upstream \in MatchPages
  /\ db \in {EmptyStore, OlderStore}
  /\ s = ClosedSession(db)
  /\ pc = "idle"
  /\ museums_data = <<>>
  /\ city_populations = <<>>
  /\ idx = 1
  /\ museums_processed = 0
  /\ cities_processed = 0
  /\ result = NoResult
  /\ runNo = 1
  /\ faults = 0
  /\ obs = NoObs
  /\ prev = NoPrev
  /\ fan = IdleFan
  /\ conc = IdleConc
  /\ http = <<>>
  /\ call = NoCall

SpecMatch == InitMatch /\ [][Next]_vars

\* ------------------------------------------------ batched population lookups
\* The loop of lines 250-269 step by step.  cities_to_fetch is a list of n
\* distinct pairs; a pair is named by its position.  task[c] is the state of
\* the coroutine fetch_single_city_population of pair c: "new" (not created),
\* "running" (created by asyncio.gather and not finished), "ok" (returned a
\* record) or "failed" (returned the empty record).
MaxFetch == 11

\* Line 252.
batch_size == 10

\* Line 255: cities_to_fetch[i:i + batch_size], as positions.
Batch(n, i) == (i + 1)..(IF i + batch_size < n THEN i + batch_size ELSE n)

\* An await that returns as soon as one awaitable of the batch is done.
GatherDone_FirstCompleted(task, batch) == \E c \in batch : task[c] # "running"

\* Lines 259-262: asyncio.gather returns when every awaitable is done.
GatherDone(task, batch) == \A c \in batch : task[c] # "running"

\* Line 268: the condition of the sleep.
PauseAfter(n, i) == i + batch_size < n

\* Lines 220-222 and 250-253: with nothing to fetch the resolver returns at
\* once; otherwise the loop starts at i = 0.
EnterLoop ==
  /\ fan.phase = "start"
  /\ fan' = [fan EXCEPT !.phase = IF fan.n = 0 THEN "done" ELSE "loop"]
  /\ UNCHANGED <<etl_vars, conc, http, call>>

\* Lines 254-262: the coroutines of the batch are created together and the
\* resolver awaits them.
StartBatch ==
  /\ fan.phase = "loop"
  /\ fan.i < fan.n
  /\ fan' = [fan EXCEPT
               !.phase = "gather",
               !.task = [c \in 1..fan.n |->
                           IF c \in Batch(fan.n, fan.i) THEN "running" ELSE @[c]]]
  /\ UNCHANGED <<etl_vars, conc, http, call>>

\* fetch_single_city_population of one pair returns (lines 227-248); every
\* exception is caught inside it.
CompleteLookup ==
  /\ fan.phase = "gather"
  /\ \E c \in 1..fan.n : \E outcome \in LookupOutcomes :
       /\ fan.task[c] = "running"
       /\ fan' = [fan EXCEPT
                    !.task[c] = IF outcome = "found" THEN "ok" ELSE "failed"]
  /\ UNCHANGED <<etl_vars, conc, http, call>>

\* Lines 259-269: gather returns, the results are appended in batch order,
\* and the sleep starts when another batch follows.
GatherReturns ==
  /\ fan.phase = "gather"
  /\ GatherDone(fan.task, Batch(fan.n, fan.i))
  /\ LET lo == fan.i
         hi == IF fan.i + batch_size < fan.n THEN fan.i + batch_size ELSE fan.n
         batch_results == [k \in 1..(hi - lo) |-> fan.task[lo + k]]
     IN fan' = [fan EXCEPT
                  !.all_results = @ \o batch_results,
                  !.phase = IF PauseAfter(fan.n, fan.i) THEN "sleep" ELSE "loop",
                  !.i = IF PauseAfter(fan.n, fan.i) THEN @ ELSE @ + batch_size]
  /\ UNCHANGED <<etl_vars, conc, http, call>>

\* Line 269: asyncio.sleep(0.5) is over; the loop goes to the next batch.
SleepDone ==
  /\ fan.phase = "sleep"
  /\ fan' = [fan EXCEPT !.phase = "loop", !.i = @ + batch_size,
                        !.pauses = @ + 1]
  /\ UNCHANGED <<etl_vars, conc, http, call>>

\* Lines 271-279: the loop is over and the results are stored.
ProcessAllResults ==
  /\ fan.phase = "loop"
  /\ fan.i >= fan.n
  /\ fan' = [fan EXCEPT !.phase = "done"]
  /\ UNCHANGED <<etl_vars, conc, http, call>>

InitBatch ==
  /\ upstream = <<>>
  /\ db = EmptyStore
  /\ s = ClosedSession(db)
  /\ pc = "resolving"
  /\ museums_data = <<>>
  /\ city_populations = <<>>
  /\ idx = 1
  /\ museums_processed = 0
  /\ cities_processed = 0
  /\ result = NoResult
  /\ runNo = 1
  /\ faults = 0
  /\ obs = NoObs
  /\ prev = NoPrev
  /\ \E n \in 0..MaxFetch :
       fan = [n |-> n, i |-> 0, phase |-> "start", task |-> [c \in 1..n |-> "new"],
              all_results |-> <<>>, pauses |-> 0]
  /\ conc = IdleConc
  /\ http = <<>>
  /\ call = NoCall

NextBatch ==
  \/ EnterLoop
  \/ StartBatch
  \/ CompleteLookup
  \/ GatherReturns
  \/ SleepDone
  \/ ProcessAllResults

SpecBatch == InitBatch /\ [][NextBatch]_vars

\* ------------------------------------------------------ two concurrent runs
\* Two calls of run_etl overlap on one PostgreSQL store (READ COMMITTED, the
\* default of the engine of session.py).  Each run processes a page of one
\* candidate, statement by statement.  A statement of a run sees the committed
\* rows and the rows the run itself has inserted; ids come from sequences that
\* the two runs share.  ins: rows inserted and not committed; pending: stats
\* added and not flushed.
Runs == {1, 2}

NewRun(museum_data) ==
  [pc |-> "idle", museum_data |-> museum_data, city_populations |-> <<>>,
   ins |-> NoPending, pending |-> <<>>, city_id |-> 0, museum_id |-> 0,
   failed |-> FALSE, saw_no_city |-> FALSE, saw_no_museum |-> FALSE,
   status |-> "none"]

\* What a statement of run r sees.
ConcView(c, r) == WithPending(c.db, c.run[r].ins)

\* _run_async_etl, lines 36-54: the page is fetched, the populations are
\* resolved against the committed store and the session is opened.
StartRun(r) ==
  /\ conc.run[r].pc = "idle"
  /\ LET md == conc.run[r].museum_data
         pair == <<md.city, md.country>>
     IN \E outcome \in LookupOutcomes :
          conc' = [conc EXCEPT
                     !.run[r].pc = "city_query",
                     !.run[r].city_populations =
                        FetchCityPopulationsForMuseums(<<pair>>, conc.db,
                                                       [q \in {pair} |-> outcome])]
  /\ UNCHANGED <<etl_vars, fan, http, call>>

\* _get_or_create_city, lines 89-95: the existence check.
QueryCity(r) ==
  /\ conc.run[r].pc = "city_query"
  /\ LET me == conc.run[r]
         o == conc.run[3 - r]
         md == me.museum_data
         existing_city == CityQuery(ConcView(conc, r), md.city, md.country)
         same == o.museum_data.city = md.city /\ o.museum_data.country = md.country
     IN IF existing_city # 0
        THEN conc' = [conc EXCEPT !.run[r].pc = "museum_query",
                                  !.run[r].city_id = existing_city]
        ELSE conc' = [conc EXCEPT
                        !.run[r].pc = "city_flush",
                        !.run[r].saw_no_city = TRUE,
                        !.raced = @ \/ (same /\ o.saw_no_city
                                          /\ o.pc \notin {"idle", "done"}),
                        !.both_passed = @ \/ (same /\ o.pc = "city_flush")]
  /\ UNCHANGED <<etl_vars, fan, http, call>>

\* _get_or_create_city, lines 97-119: the City is added and flushed.  The
\* cities table has no unique constraint, so the INSERT never fails.
FlushCity(r) ==
  /\ conc.run[r].pc = "city_flush"
  /\ LET me == conc.run[r]
         id == conc.seq.cities + 1
         city == NewCity(id, me.museum_data,
                         MatchPopulation(me.city_populations, me.museum_data.city))
     IN conc' = [conc EXCEPT !.seq.cities = id,
                             !.run[r].ins.cities = Append(@, city),
                             !.run[r].city_id = id,
                             !.run[r].pc = "museum_query"]
  /\ UNCHANGED <<etl_vars, fan, http, call>>

\* _create_museum, lines 131-138: the existence check.
QueryMuseum(r) ==
  /\ conc.run[r].pc = "museum_query"
  /\ LET me == conc.run[r]
         o == conc.run[3 - r]
         md == me.museum_data
         existing_museum == MuseumQuery(ConcView(conc, r), md.name, me.city_id)
         same == o.museum_data.name = md.name /\ o.city_id = me.city_id
     IN IF existing_museum # 0
        THEN conc' = [conc EXCEPT !.run[r].pc = "stat_query",
                                  !.run[r].museum_id = existing_museum]
        ELSE conc' = [conc EXCEPT
                        !.run[r].pc = "museum_flush",
                        !.run[r].saw_no_museum = TRUE,
                        !.raced = @ \/ (same /\ o.saw_no_museum
                                          /\ o.pc \notin {"idle", "done"})]
  /\ UNCHANGED <<etl_vars, fan, http, call>>

\* _create_museum, lines 140-156: the Museum is added and flushed.  The
\* INSERT waits while the other transaction holds an uncommitted row with the
\* same key; with a committed row of that key it fails on
\* uq_museum_name_city, and the handler rolls the transaction back and
\* returns None.
FlushMuseum(r) ==
  /\ conc.run[r].pc = "museum_flush"
  /\ LET me == conc.run[r]
         o == conc.run[3 - r]
         md == me.museum_data
         id == conc.seq.museums + 1
         museum == [id |-> id, name |-> md.name, city_id |-> me.city_id]
         ins == [me.ins EXCEPT !.museums = Append(@, museum)]
     IN /\ MuseumQuery(o.ins, md.name, me.city_id) = 0
        /\ IF ViolatesConstraints(WithPending(conc.db, ins))
           THEN conc' = [conc EXCEPT !.seq.museums = id,
                                     !.run[r].ins = NoPending,
                                     !.run[r].pending = <<>>,
                                     !.run[r].museum_id = 0,
                                     !.run[r].failed = TRUE,
                                     !.run[r].pc = "commit"]
           ELSE conc' = [conc EXCEPT !.seq.museums = id,
                                     !.run[r].ins = ins,
                                     !.run[r].museum_id = id,
                                     !.run[r].pc = "stat_query"]
  /\ UNCHANGED <<etl_vars, fan, http, call>>

\* _create_museum_stats, lines 162-178: the existence check and db.add().
QueryStat(r) ==
  /\ conc.run[r].pc = "stat_query"
  /\ LET me == conc.run[r]
         stat == [museum_id |-> me.museum_id, year |-> me.museum_data.year,
                  visitors |-> me.museum_data.visitors]
     IN IF StatQuery(ConcView(conc, r), me.museum_id)
        THEN conc' = [conc EXCEPT !.run[r].pc = "commit"]
        ELSE conc' = [conc EXCEPT !.run[r].pc = "commit",
                                  !.run[r].pending = Append(@, stat)]
  /\ UNCHANGED <<etl_vars, fan, http, call>>

\* _run_async_etl, lines 74-80, and the handler of run_etl: db.commit()
\* flushes the pending stats and commits.
CommitRun(r) ==
  /\ conc.run[r].pc = "commit"
  /\ LET me == conc.run[r]
         t == WithPending(conc.db, [me.ins EXCEPT !.stats = me.pending])
     IN IF ViolatesConstraints(t)
        THEN conc' = [conc EXCEPT !.run[r].ins = NoPending,
                                  !.run[r].pending = <<>>,
                                  !.run[r].failed = TRUE,
                                  !.run[r].status = "error",
                                  !.run[r].pc = "done"]
        ELSE conc' = [conc EXCEPT !.db = t,
                                  !.run[r].ins = NoPending,
                                  !.run[r].pending = <<>>,
                                  !.run[r].status = "ok",
                                  !.run[r].pc = "done"]
  /\ UNCHANGED <<etl_vars, fan, http, call>>

InitConcurrent ==
  /\ upstream = <<>>
  /\ db = EmptyStore
  /\ s = ClosedSession(db)
  /\ pc = "idle"
  /\ museums_data = <<>>
  /\ city_populations = <<>>
  /\ idx = 1
  /\ museums_processed = 0
  /\ cities_processed = 0
  /\ result = NoResult
  /\ runNo = 1
  /\ faults = 0
  /\ obs = NoObs
  /\ prev = NoPrev
  /\ fan = IdleFan
  /\ \E d \in InitialStores : \E m \in [Runs -> RepeatPool] :
       conc = [db |-> d,
               seq |-> [cities |-> Len(d.cities), museums |-> Len(d.museums)],
               run |-> [r \in Runs |-> NewRun(m[r])],
               raced |-> FALSE, both_passed |-> FALSE]
  /\ http = <<>>
  /\ call = NoCall

NextConcurrent ==
  \E r \in Runs :
    \/ StartRun(r)
    \/ QueryCity(r)
    \/ FlushCity(r)
    \/ QueryMuseum(r)
    \/ FlushMuseum(r)
    \/ QueryStat(r)
    \/ CommitRun(r)

SpecConcurrent == InitConcurrent /\ [][NextConcurrent]_vars

\* ----------------------------------------------------------------- HTTP API
\* The handlers of api/main.py.  http is the list of the requests served,
\* each with its response: the status code, the keys of the JSON body and the
\* values that the claims name.
MaxRequests == 3

\* The number of parameters that run_etl declares (pipeline.py, line 13).
RunEtlArity == 0

\* ETLResponse (main.py, lines 29-34): the fields without a default.
ETLResponseRequired == {"status", "year", "museums", "cities"}

\* The keys of the dict that run_etl returns (pipeline.py, lines 29, 44-48
\* and 76-80).
SummaryKeys(summary) ==
  IF summary.status = "ok" THEN {"status", "museums", "cities"}
  ELSE {"status", "error", "museums", "cities"}

\* What run_etl can return.
RunSummaries ==
  {NoDataSummary, ErrorSummary("OperationalError"), OkSummary(1, 1), OkSummary(2, 2)}

\* HTTPException(status_code=500, detail=str(e)).
Http500(detail) ==
  [code |-> 500, keys |-> {"detail"}, detail |-> detail, status |-> "none",
   columns |-> <<>>, count |-> 0, n_samples |-> 0, metrics |-> "absent"]

\* trigger_etl (main.py, lines 42-49): run_etl is called with one positional
\* argument; a call with more arguments than the function declares raises
\* TypeError, and a summary without a required field of ETLResponse raises
\* ValidationError.  Both are caught at line 48.
TriggerEtlResponse(args, summary) ==
  IF Len(args) > RunEtlArity THEN Http500("TypeError")
  ELSE IF ~(ETLResponseRequired \subseteq SummaryKeys(summary))
       THEN Http500("ValidationError")
       ELSE [code |-> 200, keys |-> SummaryKeys(summary) \cup {"year", "error"},
             detail |-> "", status |-> summary.status, columns |-> <<>>,
             count |-> 0, n_samples |-> 0, metrics |-> "absent"]

\* load_features (features.py, lines 30 and 56): the columns of the DataFrame.
FeatureColumns ==
  <<"museum_id", "museum_name", "city_id", "city_name", "visitors", "population">>

\* load_features, lines 13-27: museums joined with their city and their
\* stats, one row per stat.
FeatureRows(t) ==
  LET joined == SelectSeq(t.stats,
                  LAMBDA st : /\ st.museum_id \in 1..Len(t.museums)
                              /\ t.museums[st.museum_id].city_id \in 1..Len(t.cities))
  IN [k \in 1..Len(joined) |->
        LET m == t.museums[joined[k].museum_id]
            c == t.cities[m.city_id]
        IN [museum_id |-> m.id, museum_name |-> m.name, city_id |-> c.id,
            city_name |-> c.name, visitors |-> joined[k].visitors,
            population |-> c.population]]

\* load_features returns one DataFrame.
LoadFeatures(t) == [columns |-> FeatureColumns, rows |-> FeatureRows(t)]

\* Iterating a DataFrame yields its column labels; `a, b = df` needs exactly
\* two of them, else ValueError.
UnpackTwo(df) == Len(df.columns) = 2

\* get_features (main.py, lines 52-67).  After an unpacking that succeeds df
\* is a column label, a string, and df.empty raises AttributeError.
GetFeaturesResponse(t) ==
  LET df == LoadFeatures(t)
  IN IF ~UnpackTwo(df) THEN Http500("ValueError") ELSE Http500("AttributeError")

\* model_linear (main.py, lines 70-105), the same unpacking at line 74.
ModelLinearResponse(t) ==
  LET df == LoadFeatures(t)
  IN IF ~UnpackTwo(df) THEN Http500("ValueError") ELSE Http500("AttributeError")

\* POST /etl/run, with or without the year parameter.
TriggerEtl ==
  /\ Len(http) < MaxRequests
  /\ \E year \in {"None", "2023"} : \E summary \in RunSummaries :
       http' = Append(http, [endpoint |-> "/etl/run", year |-> year,
                             response |-> TriggerEtlResponse(<<year>>, summary)])
  /\ UNCHANGED <<etl_vars, fan, conc, call>>

\* GET /features.
GetFeatures ==
  /\ Len(http) < MaxRequests
  /\ http' = Append(http, [endpoint |-> "/features", year |-> "None",
                           response |-> GetFeaturesResponse(db)])
  /\ UNCHANGED <<etl_vars, fan, conc, call>>

\* GET /model/linear.
ModelLinear ==
  /\ Len(http) < MaxRequests
  /\ http' = Append(http, [endpoint |-> "/model/linear", year |-> "None",
                           response |-> ModelLinearResponse(db)])
  /\ UNCHANGED <<etl_vars, fan, conc, call>>

InitApi ==
  /\ upstream = <<>>
  /\ db \in InitialStores
  /\ s = ClosedSession(db)
  /\ pc = "idle"
  /\ museums_data = <<>>
  /\ city_populations = <<>>
  /\ idx = 1
  /\ museums_processed = 0
  /\ cities_processed = 0
  /\ result = NoResult
  /\ runNo = 1
  /\ faults = 0
  /\ obs = NoObs
  /\ prev = NoPrev
  /\ fan = IdleFan
  /\ conc = IdleConc
  /\ http = <<>>
  /\ call = NoCall

NextApi ==
  \/ TriggerEtl
  \/ GetFeatures
  \/ ModelLinear

SpecApi == InitApi /\ [][NextApi]_vars

\* ---------------------------------------------------------- text of a cell
\* The text of a table cell (the result of cell.get_text()) is a tuple of
\* characters.  The texts of the model hold no "<" and no "&", so parsing
\* them as HTML again leaves them as they are.  ZeroRun stands for a run of
\* four hundred "0" characters.
ZeroRun == "0{400}"

DigitChars == <<"0", "1", "2", "3", "4", "5", "6", "7", "8", "9">>

IsDigit(c) == c = ZeroRun \/ \E i \in 1..10 : DigitChars[i] = c

DigitValue(c) == (CHOOSE i \in 1..10 : DigitChars[i] = c) - 1

LetterChars == {UpperChars[i] : i \in 1..26} \cup {LowerChars[i] : i \in 1..26}

IsLetter(c) == c \in LetterChars

\* The whitespace of the texts of the model: space and tab.
WhiteChars == {" ", "\t"}

IsSpace(c) == c \in WhiteChars

\* text[i:] of Python, with i counted from 1.
From(txt, i) == SubSeq(txt, i, Len(txt))

\* str.strip()
RECURSIVE LStrip(_)
LStrip(txt) == IF txt # <<>> /\ IsSpace(Head(txt)) THEN LStrip(Tail(txt)) ELSE txt

RECURSIVE RStrip(_)
RStrip(txt) ==
  IF txt # <<>> /\ IsSpace(txt[Len(txt)]) THEN RStrip(SubSeq(txt, 1, Len(txt) - 1)) ELSE txt

Strip(txt) == RStrip(LStrip(txt))

\* The length of a match of \[\d+\] at the start of txt, 0 for no match.
RefLen(txt) ==
  IF Len(txt) < 3 \/ txt[1] # "[" THEN 0
  ELSE LET stops == {k \in 2..Len(txt) : ~IsDigit(txt[k])}
       IN IF stops = {} THEN 0
          ELSE LET k == Min(stops)
               IN IF k > 2 /\ txt[k] = "]" THEN k ELSE 0

\* re.sub(r'\[\d+\]', '', text), line 177.
RECURSIVE RemoveRefs(_)
RemoveRefs(txt) ==
  IF txt = <<>> THEN <<>>
  ELSE IF RefLen(txt) > 0 THEN RemoveRefs(From(txt, RefLen(txt) + 1))
       ELSE <<Head(txt)>> \o RemoveRefs(Tail(txt))

\* The length of a match of !\[.*?\]\([^)]+\) at the start of txt, 0 for no
\* match: the lazy .*? takes the first "](" that is followed by at least one
\* character other than ")" and then by ")".
MdImageLen(txt) ==
  IF Len(txt) < 6 \/ txt[1] # "!" \/ txt[2] # "[" THEN 0
  ELSE LET ends == {m \in 6..Len(txt) :
                      /\ txt[m] = ")"
                      /\ \E j \in 3..(m - 3) :
                           /\ txt[j] = "]" /\ txt[j + 1] = "("
                           /\ \A k \in (j + 2)..(m - 1) : txt[k] # ")"
                           /\ \A j2 \in 3..(j - 1) :
                                ~(/\ txt[j2] = "]" /\ txt[j2 + 1] = "("
                                  /\ \E m2 \in (j2 + 3)..Len(txt) :
                                       /\ txt[m2] = ")"
                                       /\ \A k \in (j2 + 2)..(m2 - 1) : txt[k] # ")")}
       IN IF ends = {} THEN 0 ELSE Min(ends)

\* re.sub(r'!\[.*?\]\([^)]+\)', '', text), line 180.
RECURSIVE RemoveMdImages(_)
RemoveMdImages(txt) ==
  IF txt = <<>> THEN <<>>
  ELSE IF MdImageLen(txt) > 0 THEN RemoveMdImages(From(txt, MdImageLen(txt) + 1))
       ELSE <<Head(txt)>> \o RemoveMdImages(Tail(txt))

\* text.replace('"', ''), line 183.
RemoveQuotes(txt) == SelectSeq(txt, LAMBDA c : c # "\"")

\* clean_html.
CleanHtml(text) ==
  IF text = <<>> THEN <<>>
  ELSE Strip(RemoveQuotes(RemoveMdImages(RemoveRefs(text))))

\* ------------------------------------------------------------------ numbers
\* Python's int is unbounded and its float is an IEEE 754 double.  A natural
\* number is kept as a sequence of limbs in base 10000, lowest limb first and
\* no zero limb on top; a finite float is q * 2^x with 2^52 <= q < 2^53, or
\* zero.
Base == 10000

RECURSIVE BigOf(_)
BigOf(n) == IF n = 0 THEN <<>> ELSE <<n % Base>> \o BigOf(n \div Base)

\* a * k + carry, for 0 < k <= 100000.
RECURSIVE BigMulSmall(_, _, _)
BigMulSmall(a, k, carry) ==
  IF a = <<>> THEN BigOf(carry)
  ELSE LET v == Head(a) * k + carry
       IN <<v % Base>> \o BigMulSmall(Tail(a), k, v \div Base)

\* Quotient and remainder of a by k, for 0 < k <= 100000.
RECURSIVE BigDivRem(_, _)
BigDivRem(a, k) ==
  IF a = <<>> THEN [q |-> <<>>, r |-> 0]
  ELSE LET hi == BigDivRem(Tail(a), k)
           v  == hi.r * Base + Head(a)
       IN [q |-> IF hi.q = <<>> /\ v \div k = 0 THEN <<>>
                 ELSE <<v \div k>> \o hi.q,
           r |-> v % k]

RECURSIVE BigLess(_, _)
BigLess(a, b) ==
  IF Len(a) # Len(b) THEN Len(a) < Len(b)
  ELSE IF a = <<>> THEN FALSE
  ELSE IF a[Len(a)] # b[Len(b)] THEN a[Len(a)] < b[Len(b)]
  ELSE BigLess(SubSeq(a, 1, Len(a) - 1), SubSeq(b, 1, Len(b) - 1))

RECURSIVE BigInc(_)
BigInc(a) ==
  IF a = <<>> THEN <<1>>
  ELSE IF Head(a) + 1 < Base THEN <<Head(a) + 1>> \o Tail(a)
  ELSE <<0>> \o BigInc(Tail(a))

BigOdd(a) == a # <<>> /\ Head(a) % 2 = 1

\* a * 2^n, thirteen bits at a time: 8192 = 2^13.
RECURSIVE BigShl(_, _)
BigShl(a, n) ==
  IF n = 0 THEN a
  ELSE IF n >= 13 THEN BigShl(BigMulSmall(a, 8192, 0), n - 13)
  ELSE BigShl(BigMulSmall(a, 2, 0), n - 1)

\* floor(a / 2^n), with lost = TRUE when a remainder was dropped.
RECURSIVE BigShr(_, _, _)
BigShr(a, n, lost) ==
  IF n = 0 THEN [q |-> a, lost |-> lost]
  ELSE LET k == IF n >= 13 THEN 8192 ELSE 2
           d == BigDivRem(a, k)
       IN BigShr(d.q, IF n >= 13 THEN n - 13 ELSE n - 1, lost \/ d.r # 0)

\* a * 1000^n
RECURSIVE BigMulThousands(_, _)
BigMulThousands(a, n) ==
  IF n = 0 THEN a ELSE BigMulThousands(BigMulSmall(a, 1000, 0), n - 1)

\* floor(a / k^n), with lost = TRUE when a remainder was dropped.
RECURSIVE BigDivPow(_, _, _, _)
BigDivPow(a, k, n, lost) ==
  IF n = 0 THEN [q |-> a, lost |-> lost]
  ELSE LET d == BigDivRem(a, k)
       IN BigDivPow(d.q, k, n - 1, lost \/ d.r # 0)

Two39 == BigShl(<<1>>, 39)
Two52 == BigShl(<<1>>, 52)
Two53 == BigShl(<<1>>, 53)
Two54 == BigShl(<<1>>, 54)
Two67 == BigShl(<<1>>, 67)

FloatZero == [kind |-> "finite", q |-> <<>>, x |-> 0]
FloatInf == [kind |-> "inf", q |-> <<>>, x |-> 0]

\* A double is below 2^1024.
Finite(q, x) == IF x + 53 > 1024 THEN FloatInf ELSE [kind |-> "finite", q |-> q, x |-> x]

\* Round to nearest, ties to even: the double nearest to (n + f) * 2^x, where
\* 0 <= f < 1 and f > 0 exactly when lost; n >= 2^54 whenever lost.
RECURSIVE RoundToDouble(_, _, _)
RoundToDouble(n, x, lost) ==
  IF n = <<>> THEN FloatZero
  ELSE IF BigLess(n, Two39) THEN RoundToDouble(BigShl(n, 13), x - 13, lost)
  ELSE IF BigLess(n, Two52) THEN RoundToDouble(BigShl(n, 1), x - 1, lost)
  ELSE IF BigLess(n, Two53) THEN Finite(n, x)
  ELSE IF ~BigLess(n, Two67)
       THEN LET d == BigShr(n, 13, lost) IN RoundToDouble(d.q, x + 13, d.lost)
  ELSE IF ~BigLess(n, Two54)
       THEN LET d == BigShr(n, 1, lost) IN RoundToDouble(d.q, x + 1, d.lost)
  ELSE LET q  == BigDivRem(n, 2).q
           up == BigOdd(n) /\ (lost \/ BigOdd(q))
           r  == IF up THEN BigInc(q) ELSE q
       IN IF r = Two53 THEN Finite(Two52, x + 2) ELSE Finite(r, x + 1)

\* The double nearest to digits / 10^d, for a natural number digits.
FloatOfDecimal(digits, d) ==
  IF digits = <<>> THEN FloatZero
  ELSE LET shift == 60 + 4 * d
           n     == BigDivPow(BigShl(digits, shift), 10, d, FALSE)
       IN RoundToDouble(n.q, -shift, n.lost)

\* f * 1000^k as a double: the multiplier is exact, the product is rounded.
FloatTimesThousands(f, k) ==
  IF f.kind = "inf" THEN FloatInf
  ELSE RoundToDouble(BigMulThousands(f.q, k), f.x, FALSE)

\* int(f): truncation, OverflowError for infinity.
IntOf(f) ==
  IF f.kind = "inf" THEN [raised |-> TRUE, n |-> <<>>]
  ELSE IF f.x >= 0 THEN [raised |-> FALSE, n |-> BigShl(f.q, f.x)]
  ELSE IF -f.x > 53 THEN [raised |-> FALSE, n |-> <<>>]
  ELSE [raised |-> FALSE, n |-> BigShr(f.q, -f.x, FALSE).q]

\* ------------------------------------------------------------ visitor count
\* re.sub(r'\(.*?\)', '', visitor_cell), line 117.
RECURSIVE StripParens(_)
StripParens(txt) ==
  IF txt = <<>> THEN <<>>
  ELSE LET closes == {k \in 2..Len(txt) : txt[k] = ")"}
       IN IF Head(txt) = "(" /\ closes # {}
          THEN StripParens(From(txt, Min(closes) + 1))
          ELSE <<Head(txt)>> \o StripParens(Tail(txt))

\* The index of the last character of the longest run of characters of the
\* set C that starts at index i; i - 1 when there is none.
RunEnd(txt, i, C) ==
  LET stops == {k \in i..Len(txt) : txt[k] \notin C}
  IN IF stops = {} THEN Len(txt) ELSE Min(stops) - 1

DigitSet == {c \in {DigitChars[i] : i \in 1..10} \cup {ZeroRun} : IsDigit(c)}

\* re.search(r'([\d,]+\.?\d*)\s*([a-zA-Z]+)?', visitor_cell), lines 120-121:
\* the two groups of the first match, or found = FALSE.
TextMatch(txt) ==
  LET starts == {i \in 1..Len(txt) : txt[i] \in DigitSet \cup {","}}
  IN IF starts = {} THEN [found |-> FALSE, number |-> <<>>, unit |-> <<>>]
     ELSE LET a  == Min(starts)
              j1 == RunEnd(txt, a, DigitSet \cup {","})
              j2 == IF j1 < Len(txt) /\ txt[j1 + 1] = "." THEN j1 + 1 ELSE j1
              j3 == RunEnd(txt, j2 + 1, DigitSet)
              j4 == RunEnd(txt, j3 + 1, WhiteChars)
              j5 == RunEnd(txt, j4 + 1, LetterChars)
          IN [found  |-> TRUE,
              number |-> SubSeq(txt, a, j3),
              unit   |-> SubSeq(txt, j4 + 1, j5)]

\* _is_valid_float: float() accepts digits with at most one point and at
\* least one digit, which is all the first group can hold besides commas.
IsValidFloat(txt) == txt # <<>> /\ \E i \in 1..Len(txt) : IsDigit(txt[i])

\* The natural number written by the digits of txt, the point left out.
RECURSIVE DigitsOf(_, _)
DigitsOf(txt, acc) ==
  IF txt = <<>> THEN acc
  ELSE IF Head(txt) \in {".", ZeroRun} THEN DigitsOf(Tail(txt), acc)
  ELSE DigitsOf(Tail(txt), BigMulSmall(acc, 10, DigitValue(Head(txt))))

\* The number of digits after the point.
FractionDigits(txt) ==
  LET points == {i \in 1..Len(txt) : txt[i] = "."}
  IN IF points = {} THEN 0 ELSE Len(txt) - Min(points)

\* float(number_part), line 135.  ZeroRun occurs in the texts of the model
\* only as the last character of an integer part: behind a digit other than
\* "0" the number has more than 309 digits and the float is infinity.
ParseFloat(txt) ==
  LET digits == DigitsOf(txt, <<>>)
  IN IF digits # <<>> /\ \E i \in 1..Len(txt) : txt[i] = ZeroRun THEN FloatInf
     ELSE FloatOfDecimal(digits, FractionDigits(txt))

Word_thousand == <<"t", "h", "o", "u", "s", "a", "n", "d">>
Word_million == <<"m", "i", "l", "l", "i", "o", "n">>
Word_billion == <<"b", "i", "l", "l", "i", "o", "n">>

\* Lines 142-155: the multiplier of a unit is 1000 to this power.
UnitThousands(unit_part) ==
  IF unit_part = <<>> THEN 0
  ELSE LET unit == Lower(Strip(unit_part))
       IN IF unit = Word_thousand THEN 1
          ELSE IF unit = Word_million THEN 2
          ELSE IF unit = Word_billion THEN 3
          ELSE 0

\* An integer result of the parser.
Zero == [raised |-> FALSE, n |-> <<>>]

\* _extract_visitor_count.
ExtractVisitorCount(visitor_cell) ==
  LET text_match == TextMatch(StripParens(visitor_cell))
      number_part == SelectSeq(text_match.number, LAMBDA c : c # ",")
  IN IF ~text_match.found THEN Zero
     ELSE IF ~IsValidFloat(number_part) THEN Zero
     ELSE LET visitors == ParseFloat(number_part)
          IN IF UnitThousands(text_match.unit) = 0 THEN IntOf(visitors)
             ELSE IntOf(FloatTimesThousands(visitors,
                                            UnitThousands(text_match.unit)))

\* v < n for an integer result v and a number n.
LessThan(v, n) == BigLess(v.n, BigOf(n))

\* ----------------------------------------------------------- quantity texts
\* A quantity text: an optional sign, a numeric run, whitespace, a word and a
\* parenthesized segment.
SignParts ==
  { <<>>,
    <<"-">> }

NumberParts ==
  { <<"2", ".", "5">>,
    <<"1", ",", "0", "0", "0">>,
    <<"4", ".", "1">>,
    <<"8", ".", "2">>,
    <<"0">>,
    <<"2">>,
    <<"9", ",", "6", "0", "0", ",", "0", "0", "0">>,
    <<"2", "5", "0", "0", "0", "0", "0", ".", "5">> }

GapParts ==
  { <<>>,
    <<" ">>,
    <<" ", " ">>,
    <<"\t">> }

WordParts ==
  { <<>>,
    <<"t", "h", "o", "u", "s", "a", "n", "d">>,
    <<"m", "i", "l", "l", "i", "o", "n">>,
    <<"b", "i", "l", "l", "i", "o", "n">>,
    <<"M", "I", "L", "L", "I", "O", "N">>,
    <<"B", "i", "l", "l", "i", "o", "n">>,
    <<"t", "r", "i", "l", "l", "i", "o", "n">> }

SegmentParts ==
  { <<>>,
    <<" ", "(", "2", "0", "1", "9", ")">>,
    <<" ", "(", "e", "s", "t", "i", "m", "a", "t", "e", "d", ")">>,
    <<" ", "(", "e", "s", "t", ".", " ", "2", "0", "1", "9", ")">>,
    <<" ", "(", "(", "2", "0", "1", "9", ")", " ", "m", "i", "l", "l", "i", "o", "n", ")">> }

\* Texts without a number the parser accepts, and a number beyond the floats.
OtherTexts ==
  { <<>>,
    <<"a", "b", "c">>,
    <<"m", "i", "l", "l", "i", "o", "n">>,
    <<",">>,
    <<",", ".">>,
    <<"n", "/", "a">>,
    <<"(", ")">>,
    <<"1", ZeroRun>>,
    <<"1", ZeroRun, " ", "m", "i", "l", "l", "i", "o", "n">> }

QuantityCalls ==
  { [sign |-> sg, number |-> nb, gap |-> gp, word |-> wd, segment |-> sm,
     text |-> sg \o nb \o gp \o wd \o sm, out |-> Zero, done |-> FALSE] :
      sg \in SignParts, nb \in NumberParts, gp \in GapParts, wd \in WordParts,
      sm \in SegmentParts }
  \cup
  { [sign |-> <<>>, number |-> <<>>, gap |-> <<>>, word |-> <<>>,
     segment |-> <<>>, text |-> tx, out |-> Zero, done |-> FALSE] :
      tx \in OtherTexts }

\* _extract_museum_from_cells, line 205: the parser is called on a text.  An
\* exception leaves the function: it has no handler.
CountVisitors ==
  /\ ~call.done
  /\ call' = [call EXCEPT !.out = ExtractVisitorCount(call.text), !.done = TRUE]
  /\ UNCHANGED <<etl_vars, fan, conc, http>>

InitCount ==
  /\ upstream = <<>>
  /\ db = EmptyStore
  /\ s = ClosedSession(EmptyStore)
  /\ pc = "idle"
  /\ museums_data = <<>>
  /\ city_populations = <<>>
  /\ idx = 1
  /\ museums_processed = 0
  /\ cities_processed = 0
  /\ result = NoResult
  /\ runNo = 1
  /\ faults = 0
  /\ obs = NoObs
  /\ prev = NoPrev
  /\ fan = IdleFan
  /\ conc = IdleConc
  /\ http = <<>>
  /\ call \in QuantityCalls

NextCount == CountVisitors

SpecCount == InitCount /\ [][NextCount]_vars

\* ------------------------------------------------------------ row extractor
\* re.search(r'\((\d{4})\)', visitor_cell), lines 201-202: the year of the
\* first match, 0 without a match.
YearOf(txt) ==
  LET hits == {i \in 1..(Len(txt) - 5) :
                 /\ txt[i] = "(" /\ txt[i + 5] = ")"
                 /\ \A k \in 1..4 : IsDigit(txt[i + k]) /\ txt[i + k] # ZeroRun}
  IN IF hits = {} THEN 0
     ELSE LET i == Min(hits)
          IN DigitValue(txt[i + 1]) * 1000 + DigitValue(txt[i + 2]) * 100
             + DigitValue(txt[i + 3]) * 10 + DigitValue(txt[i + 4])

Absent == [kind |-> "absent"]

\* An exception that leaves the function.
Raised(exception) == [kind |-> "raised", exception |-> exception]

CaughtByExtractor == {"AttributeError", "ValueError", "TypeError"}

\* _extract_museum_from_cells: a record, None, or an exception that the
\* except clause of line 229 does not catch.
ExtractMuseumFromCells(cells) ==
  IF Len(cells) < 4 THEN Absent
  ELSE LET museum_name  == CleanHtml(cells[1])
           visitor_cell == CleanHtml(cells[2])
           year         == YearOf(visitor_cell)
           visitors     == ExtractVisitorCount(visitor_cell)
           city         == Strip(CleanHtml(cells[3]))
           country      == Strip(CleanHtml(cells[4]))
       IN IF visitors.raised
          THEN IF "OverflowError" \in CaughtByExtractor THEN Absent
               ELSE Raised("OverflowError")
          ELSE IF LessThan(visitors, 2000000) THEN Absent
          ELSE IF museum_name = <<>> \/ city = <<>> \/ country = <<>> THEN Absent
          ELSE [kind |-> "record", name |-> museum_name, city |-> city,
                country |-> country, visitors |-> visitors, year |-> year,
                source |-> "wikipedia_api"]

\* The texts a cell of each column can hold.
NameCells ==
  { <<"L", "o", "u", "v", "r", "e">>,
    <<"L", "o", "u", "v", "r", "e", "[", "1", "]">>,
    <<"\"", " ", "\"">>,
    <<"!", "[", "]", "(", "u", ")">>,
    <<>> }

VisitorCells ==
  { <<"9", ",", "6", "0", "0", ",", "0", "0", "0", " ", "(", "2", "0", "2", "3", ")">>,
    <<"2", ",", "0", "0", "0", ",", "0", "0", "0", "[", "2", "]">>,
    <<"1", ",", "9", "9", "9", ",", "9", "9", "9">>,
    <<"2", ".", "5", " ", "m", "i", "l", "l", "i", "o", "n">>,
    <<"n", "/", "a">>,
    <<"1", ZeroRun>>,
    <<>> }

CityCells ==
  { <<"P", "a", "r", "i", "s">>,
    <<" ", "P", "a", "r", "i", "s", " ">>,
    <<"[", "1", "]">>,
    <<>> }

CountryCells ==
  { <<"F", "r", "a", "n", "c", "e">>,
    <<" ">>,
    <<>> }

OtherCells == { <<"x">> }

MaxCells == 5

ColumnCells(k) ==
  IF k = 1 THEN NameCells ELSE IF k = 2 THEN VisitorCells
  ELSE IF k = 3 THEN CityCells ELSE IF k = 4 THEN CountryCells ELSE OtherCells

\* The rows of n cells, each cell from its column's texts.
RECURSIVE RowsOfLen(_)
RowsOfLen(n) ==
  IF n = 0 THEN {<<>>}
  ELSE {Append(r, c) : r \in RowsOfLen(n - 1), c \in ColumnCells(n)}

\* The rows of a table: up to MaxCells cells.
Rows == UNION {RowsOfLen(n) : n \in 0..MaxCells}

\* _parse_museum_data_from_content, line 79: the extractor is called on the
\* cells of a row.
ExtractRow ==
  /\ ~call.done
  /\ call' = [call EXCEPT !.out = ExtractMuseumFromCells(call.cells),
                          !.done = TRUE]
  /\ UNCHANGED <<etl_vars, fan, conc, http>>

InitExtract ==
  /\ upstream = <<>>
  /\ db = EmptyStore
  /\ s = ClosedSession(EmptyStore)
  /\ pc = "idle"
  /\ museums_data = <<>>
  /\ city_populations = <<>>
  /\ idx = 1
  /\ museums_processed = 0
  /\ cities_processed = 0
  /\ result = NoResult
  /\ runNo = 1
  /\ faults = 0
  /\ obs = NoObs
  /\ prev = NoPrev
  /\ fan = IdleFan
  /\ conc = IdleConc
  /\ http = <<>>
  /\ \E cells \in Rows : call = [cells |-> cells, out |-> [kind |-> "none"], done |-> FALSE]

NextExtract == ExtractRow

SpecExtract == InitExtract /\ [][NextExtract]_vars

\* -------------------------------------------------------------- normalizer
\* The texts given to clean_html: every text of up to MaxTextLen characters
\* of a letter, a blank, a quote and the characters of reference and image
\* markers, and some longer ones.
TextChars == {"a", " ", "\"", "[", "1", "]", "!", "(", ")"}

MaxTextLen == 4

LongTexts ==
  { <<"[", "[", "1", "]", "1", "]">>,
    <<"[", "1", "]", "[", "2", "]">>,
    <<"L", "o", "u", "v", "r", "e", "[", "1", "2", "]">>,
    <<"!", "[", "]", "(", "u", ")", "x">>,
    <<"!", "!", "[", "]", "(", "u", ")", "[", "]", "(", "u", ")">>,
    <<"\"", "L", "o", "u", "v", "r", "e", "\"", " ">> }

CleanTexts == SeqsUpTo(TextChars, MaxTextLen) \cup LongTexts

\* clean_html is called on a text.
CleanFirst ==
  /\ call.step = 0
  /\ call' = [call EXCEPT !.once = CleanHtml(call.text), !.step = 1]
  /\ UNCHANGED <<etl_vars, fan, conc, http>>

\* clean_html is called on its own result.
CleanAgain ==
  /\ call.step = 1
  /\ call' = [call EXCEPT !.twice = CleanHtml(call.once), !.step = 2]
  /\ UNCHANGED <<etl_vars, fan, conc, http>>

InitClean ==
  /\ upstream = <<>>
  /\ db = EmptyStore
  /\ s = ClosedSession(EmptyStore)
  /\ pc = "idle"
  /\ museums_data = <<>>
  /\ city_populations = <<>>
  /\ idx = 1
  /\ museums_processed = 0
  /\ cities_processed = 0
  /\ result = NoResult
  /\ runNo = 1
  /\ faults = 0
  /\ obs = NoObs
  /\ prev = NoPrev
  /\ fan = IdleFan
  /\ conc = IdleConc
  /\ http = <<>>
  /\ \E text \in CleanTexts :
       call = [text |-> text, once |-> <<>>, twice |-> <<>>, step |-> 0]

NextClean ==
  \/ CleanFirst
  \/ CleanAgain

SpecClean == InitClean /\ [][NextClean]_vars

\* ------------------------------------------------------------------ claims
UniqueCityKeys(t) ==
  \A i, j \in 1..Len(t.cities) :
    (t.cities[i].name = t.cities[j].name /\ t.cities[i].country = t.cities[j].country)
      => i = j

UniqueMuseumKeys(t) ==
  \A i, j \in 1..Len(t.museums) :
    (t.museums[i].name = t.museums[j].name /\ t.museums[i].city_id = t.museums[j].city_id)
      => i = j

UniqueStatKeys(t) ==
  \A i, j \in 1..Len(t.stats) :
    (t.stats[i].museum_id = t.stats[j].museum_id /\ t.stats[i].year = t.stats[j].year)
      => i = j

\* A run that obtained the candidate records and met no injected store error.
CleanRun == obs.fetch \in {"ok", "replaced"} /\ ~obs.fault

\* C1: when two runs in sequence fetch the same candidate list and the store
\* raises no error, the second run leaves the number of City rows and the
\* number of Museum rows as the first run left them.
C1_Idempotent ==
  (pc = "done" /\ prev.valid /\ prev.clean /\ CleanRun)
    => (Len(db.cities) = prev.cities /\ Len(db.museums) = prev.museums)

\* C2: no two City rows share (name, country), in the committed store and in
\* the view of the running transaction, after any sequence of runs.
C2_CityUnique == UniqueCityKeys(db) /\ UniqueCityKeys(s.tx)

\* A second run has committed over a page that names one (city, country) in
\* two rows, and the City row of that pair is in the store.
C2_Witness ==
  /\ pc = "done" /\ runNo = 2 /\ result.status = "ok" /\ prev.status = "ok"
  /\ \E i, j \in 1..Len(museums_data) :
       /\ i < j
       /\ museums_data[i].city = museums_data[j].city
       /\ museums_data[i].country = museums_data[j].country
       /\ CityQuery(db, museums_data[i].city, museums_data[i].country) # 0

\* The Museum row that the candidate at the loop position already has in the
\* view of the transaction, 0 when it has none.
ObservedMuseum ==
  IF pc = "persisting" /\ idx <= Len(museums_data) /\ s.active
  THEN LET c == CityQuery(s.tx, museums_data[idx].city, museums_data[idx].country)
       IN IF c = 0 THEN 0 ELSE MuseumQuery(s.tx, museums_data[idx].name, c)
  ELSE 0

\* C3 (second part): a loop step over a candidate whose (name, city) already
\* has a Museum row, with no store error in the step, returns that row and
\* adds no Museum row.
C3_Reobserve ==
  (ObservedMuseum # 0 /\ obs'.last_fault = "none")
    => (obs'.museum_id = ObservedMuseum /\ s'.tx.museums = s.tx.museums)

\* C3: no two Museum rows share (name, city reference), and observing a pair
\* that already has a row creates no row and returns the existing one.
C3_MuseumUnique ==
  [](UniqueMuseumKeys(db) /\ UniqueMuseumKeys(s.tx)) /\ [][C3_Reobserve]_vars

\* A later run has just re-observed a museum whose row was committed by an
\* earlier run: the step returned that committed row.
C3_Witness ==
  /\ pc = "persisting" /\ runNo = 2 /\ idx > 1
  /\ obs.last_fault = "none"
  /\ obs.museum_id # 0
  /\ obs.museum_id <= Len(db.museums)
  /\ db.museums[obs.museum_id].name = museums_data[idx - 1].name

\* C4: no two MuseumStat rows share (museum, year), and a museum never has
\* more than one MuseumStat row.
C4_OneStatPerMuseum ==
  /\ UniqueStatKeys(db)
  /\ \A i, j \in 1..Len(db.stats) :
       db.stats[i].museum_id = db.stats[j].museum_id => i = j

\* C5: a run whose museum fetch yielded no candidate record, whatever the
\* cause, returns status "error", museums 0, cities 0 and the fixed message.
C5_NoData ==
  (pc = "done" /\ obs.fetch # "not_run" /\ museums_data = <<>>)
    => /\ result.status = "error"
       /\ result.museums = 0
       /\ result.cities = 0
       /\ result.error = "No museum data available from Wikidata"

\* The fetch of the client failed on a page that has rows, and the run has
\* returned.
C5_Witness ==
  /\ pc = "done" /\ obs.fetch = "attribute_error" /\ upstream # <<>>
  /\ result.status = "error"

C7_EarlierRowsKept ==
  (pc = "done" /\ result.status = "ok")
    => /\ obs.ok \cup obs.failed = 1..Len(museums_data)
       /\ \A i \in obs.ok :
            (\E j \in obs.failed : i < j)
              => LET c == CityQuery(db, museums_data[i].city, museums_data[i].country)
                 IN c # 0 /\ MuseumQuery(db, museums_data[i].name, c) # 0

\* C8: a run in which the processing of some candidate raised, and whose
\* commit met no store error, visited every candidate and ended with
\* status "ok".
C8_NeverAborts ==
  (pc = "done" /\ obs.failed # {} /\ result.error # "OperationalError")
    => /\ result.status = "ok"
       /\ obs.ok \cup obs.failed = 1..Len(museums_data)

\* C9: the population resolver never raises, and the mapping it returns has
\* an entry for every city name, empty for a city whose lookup failed and the
\* fetched record for a city whose lookup succeeded.
C9_ResolverNeverRaises ==
  /\ obs.escaped # "resolver"
  /\ pc = "persisting" =>
       \A pair \in UniqueCities(museums_data) :
         /\ DictHas(city_populations, pair[1])
         /\ pair \in obs.found =>
              DictGet(city_populations, pair[1])
                = FetchCityPopulation(SearchCityByName(pair[1], pair[2]))
         /\ pair \in obs.fetched \ obs.found =>
              DictGet(city_populations, pair[1]) = EmptyData

\* C10: a run with at least one candidate record in which every population
\* lookup failed, and in which the store raised no error, returns status "ok"
\* with museums > 0 and cities > 0.
C10_PopulationGapsNotFatal ==
  (pc = "done" /\ CleanRun /\ museums_data # <<>>
     /\ obs.fetched # {} /\ obs.found = {})
    => (result.status = "ok" /\ result.museums > 0 /\ result.cities > 0)

\* The City rows and the Museum rows of the committed store that the
\* candidates of the run map to.
CityRowsOfRun ==
  { CityQuery(db, museums_data[i].city, museums_data[i].country) :
      i \in 1..Len(museums_data) } \ {0}

MuseumRowsOfRun ==
  { MuseumQuery(db, museums_data[i].name,
                CityQuery(db, museums_data[i].city, museums_data[i].country)) :
      i \in 1..Len(museums_data) } \ {0}

\* C11: in the summary of a run with status "ok" in which no candidate
\* raised, cities is the number of distinct City rows and museums the number
\* of distinct Museum rows that the run obtained or created.
C11_SummaryCounts ==
  (pc = "done" /\ result.status = "ok" /\ obs.failed = {})
    => /\ result.cities = Cardinality(CityRowsOfRun)
       /\ result.museums = Cardinality(MuseumRowsOfRun)

\* C12 (first part): a pair that has a City row when the resolver runs is
\* not looked up, and the mapping holds the row's population, year and
\* identifier under the city name.  The store does not change between the
\* resolver and the commit.
C12_CachedPairsNotFetched ==
  pc = "persisting" =>
    \A pair \in UniqueCities(museums_data) :
      LET id == CityQuery(db, pair[1], pair[2])
      IN id # 0 =>
           /\ pair \notin obs.fetched
           /\ DictGet(city_populations, pair[1]) = CachedData(db.cities[id])

\* C12 (second part): a run over the same candidates as the run before it,
\* which returned "ok", issues no population lookup, the store raising no
\* error in either run.
C12_SecondRunNoLookup ==
  (pc = "persisting" /\ prev.valid /\ prev.clean /\ prev.status = "ok" /\ ~obs.fault)
    => obs.fetched = {}

\* C12: cache-first resolution, both parts.
C12_CacheFirst == C12_CachedPairsNotFetched /\ C12_SecondRunNoLookup

\* The lookups in flight, and the number of the batch of a position (from 0).
InFlight == {c \in 1..fan.n : fan.task[c] = "running"}

BatchOf(c) == (c - 1) \div batch_size

\* C13, in every state: at most batch_size lookups are in flight; while a
\* lookup is in flight every lookup of the earlier batches is complete and
\* one pause has passed per earlier batch; and when the loop is over every
\* pair has its result, in order, and no pause followed the last batch.
C13_InEveryState ==
  /\ Cardinality(InFlight) <= batch_size
  /\ \A c \in InFlight :
       /\ \A d \in 1..fan.n :
            BatchOf(d) < BatchOf(c) => fan.task[d] \in {"ok", "failed"}
       /\ \A d \in InFlight : BatchOf(d) = BatchOf(c)
       /\ fan.pauses = BatchOf(c)
  /\ fan.phase = "done" =>
       /\ fan.pauses = (IF fan.n = 0 THEN 0 ELSE (fan.n - 1) \div batch_size)
       /\ Len(fan.all_results) = fan.n
       /\ \A c \in 1..fan.n :
            fan.all_results[c] = fan.task[c] /\ fan.task[c] \in {"ok", "failed"}

\* C13, in every step: a lookup that fails changes no other lookup.
C13_NoCancel ==
  \A c \in 1..fan.n :
    (fan.task[c] = "running" /\ fan'.task[c] = "failed")
      => \A d \in 1..fan.n : d # c => fan'.task[d] = fan.task[d]

\* C13: the batched fan-out of the population lookups.
C13_BatchedFanOut == []C13_InEveryState /\ [][C13_NoCancel]_vars

\* Eleven pairs were looked up in two batches with one pause; in the first
\* batch one lookup failed and another succeeded.
C13_Witness ==
  /\ fan.phase = "done" /\ fan.n = batch_size + 1 /\ fan.pauses = 1
  /\ \E c, d \in 1..batch_size : fan.task[c] = "failed" /\ fan.task[d] = "ok"

\* C14: with two overlapping runs, the committed store holds two City rows
\* with one (name, country), or a run fails on a unique constraint, only
\* when one run passed the existence check of a key that the other run had
\* found absent and not yet committed.  The witness shows that such a state
\* is reached.
C14_DuplicatesOnlyByRace ==
  (~UniqueCityKeys(conc.db) \/ \E r \in DOMAIN conc.run : conc.run[r].failed)
    => conc.raced

\* Both runs passed the City check before either inserted, both committed
\* with status "ok", and the store holds two City rows with one key.
C14_Witness ==
  /\ conc.both_passed
  /\ \A r \in DOMAIN conc.run : conc.run[r].pc = "done" /\ conc.run[r].status = "ok"
  /\ DOMAIN conc.run # {}
  /\ ~UniqueCityKeys(conc.db)

\* Both runs found the Museum key absent under a City that was committed
\* before, and the run that inserted second failed on uq_museum_name_city.
C14_ConstraintFailureReached ==
  \E r \in DOMAIN conc.run :
    /\ conc.run[r].failed
    /\ conc.run[r].pc = "done"
    /\ conc.run[r].status = "ok"
    /\ conc.run[3 - r].status = "ok"

\* C15: the store refuses a second cities row with one (name, country), a
\* second museums row with one (name, city) and a second museum_stats row
\* with one (museum, year): no committed table holds two rows with one key.
C15_SchemaEnforcesKeys ==
  /\ UniqueCityKeys(conc.db)
  /\ UniqueMuseumKeys(conc.db)
  /\ UniqueStatKeys(conc.db)

\* The part of C15 that the declared constraints give: the museums and the
\* museum_stats keys.
C15_DeclaredKeysEnforced == UniqueMuseumKeys(conc.db) /\ UniqueStatKeys(conc.db)

\* The document of two rows that the museum source serves.
TwoRowDocument ==
  << Candidate("Louvre", Paris, "France", 9600000, 2023),
     Candidate("Met", NewYork, "United States", 6479548, 2023) >>

\* C16: the first run over the two-row document through the fetch path of
\* the client, on a store that starts empty and raises no error, returns
\* status "ok" with museums 2 and cities 2.
C16_EndToEnd ==
  (/\ pc = "done" /\ runNo = 1 /\ ~obs.fault
   /\ obs.fetch \notin {"not_run", "replaced"}
   /\ upstream = TwoRowDocument
   /\ (db = EmptyStore \/ result.status = "ok"))
    => result = OkSummary(2, 2)

\* C17: every POST /etl/run is answered with HTTP 200 and a body that has
\* status, museums and cities and no year.
C17_EtlRunAnswers200 ==
  \A i \in 1..Len(http) :
    http[i].endpoint = "/etl/run" =>
      /\ http[i].response.code = 200
      /\ {"status", "museums", "cities"} \subseteq http[i].response.keys
      /\ "year" \notin http[i].response.keys

\* C18: GET /features on a store with no rows is answered with HTTP 200,
\* count 0 and the columns of load_features.
C18_FeaturesEmpty ==
  \A i \in 1..Len(http) :
    (http[i].endpoint = "/features" /\ db = EmptyStore) =>
      /\ http[i].response.code = 200
      /\ http[i].response.count = 0
      /\ http[i].response.columns = FeatureColumns

\* C19: GET /model/linear with no feature row is answered with HTTP 200,
\* n_samples 0, the metrics null and a note.
C19_ModelLinearEmpty ==
  \A i \in 1..Len(http) :
    (http[i].endpoint = "/model/linear" /\ FeatureRows(db) = <<>>) =>
      /\ http[i].response.code = 200
      /\ http[i].response.n_samples = 0
      /\ http[i].response.metrics = "null"
      /\ "notes" \in http[i].response.keys

\* C20: the row extractor returns a record only for a row of at least four
\* cells whose cleaned name, city and country are non-empty and whose parsed
\* visitor count is at least 2,000,000; for every other row it returns
\* absent, never a partial record.
C20_RecordOnlyIf ==
  (call.done /\ call.out.kind = "record") =>
    /\ Len(call.cells) >= 4
    /\ call.out.name # <<>> /\ call.out.name = CleanHtml(call.cells[1])
    /\ call.out.city # <<>> /\ call.out.city = CleanHtml(call.cells[3])
    /\ call.out.country # <<>> /\ call.out.country = CleanHtml(call.cells[4])
    /\ ~LessThan(call.out.visitors, 2000000)

C20_ExtractorInvariant ==
  /\ C20_RecordOnlyIf
  /\ call.done => call.out.kind \in {"record", "absent"}

\* A row is extracted to a record, and a row is dropped.
C20_RecordReached == call.done /\ call.out.kind = "record"

C20_AbsentReached == call.done /\ call.out.kind = "absent" /\ Len(call.cells) >= 4

\* C21: for a quantity text whose first numeric run is n, followed by an
\* optional word u, the parser returns trunc(n * m): m is 1,000 for
\* "thousand", 1,000,000 for "million", 1,000,000,000 for "billion" in any
\* letter case, and 1 for another word or none; the thousands separators of n
\* are removed first.
DeclaredThousands(word) ==
  IF Lower(word) = Word_thousand THEN 1
  ELSE IF Lower(word) = Word_million THEN 2
  ELSE IF Lower(word) = Word_billion THEN 3
  ELSE 0

\* trunc(n * 1000^k), computed exactly on the decimal digits of n.
TruncOfProduct(number, k) ==
  LET n == SelectSeq(number, LAMBDA c : c # ",")
  IN BigDivPow(BigMulThousands(DigitsOf(n, <<>>), k), 10, FractionDigits(n),
               FALSE).q

C21_UnitMultiplier ==
  (call.done /\ call.number # <<>> /\ call.segment = <<>>) =>
    call.out = [raised |-> FALSE,
                n |-> TruncOfProduct(call.number, DeclaredThousands(call.word))]

\* The examples of the claim: "2.5 million", "1,000 million", "2.5 trillion".
C21_Examples ==
  /\ ExtractVisitorCount(<<"2", ".", "5", " ", "m", "i", "l", "l", "i", "o", "n">>).n = BigOf(2500000)
  /\ ExtractVisitorCount(<<"1", ",", "0", "0", "0", " ", "m", "i", "l", "l", "i", "o", "n">>).n = BigOf(1000000000)
  /\ ExtractVisitorCount(<<"2", ".", "5", " ", "t", "r", "i", "l", "l", "i", "o", "n">>).n = BigOf(2)

\* C22: the parser is total and never negative: for every text it returns an
\* integer >= 0 without raising; it returns 0 when the text has no numeric
\* run or the numeric token is not a valid float; a leading minus sign is
\* dropped.
C22_ZeroWithoutNumber ==
  (call.done /\ ~call.out.raised) =>
    LET text_match == TextMatch(StripParens(call.text))
    IN (~text_match.found
          \/ ~IsValidFloat(SelectSeq(text_match.number, LAMBDA c : c # ",")))
         => call.out.n = <<>>

C22_SignDropped ==
  (call.done /\ call.sign # <<>>) =>
    call.out = ExtractVisitorCount(call.number \o call.gap \o call.word
                                     \o call.segment)

C22_TotalNonNegative ==
  /\ call.done => ~call.out.raised
  /\ C22_ZeroWithoutNumber
  /\ C22_SignDropped

\* C23: every parenthesized segment of a quantity cell is removed before the
\* count is parsed, so the count of "N (X)" is the count of "N" whatever X
\* is; the year is the number of a segment "(dddd)" of the cell if there is
\* one, and 0 otherwise.
C23_SegmentRemoved ==
  (call.done /\ call.number # <<>> /\ call.segment # <<>>) =>
    call.out = ExtractVisitorCount(call.sign \o call.number \o call.gap
                                     \o call.word)

FourDigits(y) ==
  <<DigitChars[(y \div 1000) + 1], DigitChars[((y \div 100) % 10) + 1],
    DigitChars[((y \div 10) % 10) + 1], DigitChars[(y % 10) + 1]>>

HasYearSegment(txt) ==
  \E i \in 1..(Len(txt) - 5) :
    /\ txt[i] = "(" /\ txt[i + 5] = ")"
    /\ \A k \in 1..4 : \E j \in 1..10 : DigitChars[j] = txt[i + k]

C23_YearOfSegment ==
  call.done =>
    LET year == YearOf(call.text)
    IN /\ HasYearSegment(call.text) =>
            Contains(<<"(">> \o FourDigits(year) \o <<")">>, call.text)
       /\ ~HasYearSegment(call.text) => year = 0

C23_EmbeddedYear == C23_SegmentRemoved /\ C23_YearOfSegment

\* C24: clean_html is idempotent: cleaning a cleaned text changes nothing.
C24_Idempotent == call.step = 2 => call.twice = call.once

\* Cleaning is not always the identity, and is idempotent on ordinary texts.
C24_CleanedReached ==
  call.step = 2 /\ call.once # call.text /\ call.twice = call.once

\* C25: when a City row is created, its population is the resolver's record
\* under exactly the candidate's city name when that record is non-empty;
\* otherwise the record of the first other resolved name, in resolver order,
\* that contains or is contained in the city name case-insensitively and has
\* a record; the City has no population data only when there is no such name.
ClaimedPopulation(d, city_name) ==
  LET exact == DictGet(d, city_name)
      others == {i \in 1..Len(d) :
                   /\ d[i].key # city_name
                   /\ PartialMatch(city_name, d[i].key)
                   /\ d[i].data.found}
  IN IF exact.found THEN exact
     ELSE IF others = {} THEN EmptyData
     ELSE d[Min(others)].data

\* The step creates a City row that stays in the transaction.
CityCreated ==
  /\ pc = "persisting"
  /\ idx <= Len(museums_data)
  /\ Len(s'.tx.cities) = Len(s.tx.cities) + 1
  /\ s'.tx.cities[Len(s'.tx.cities)].name = museums_data[idx].city
  /\ s'.tx.cities[Len(s'.tx.cities)].country = museums_data[idx].country

C25_Step ==
  CityCreated =>
    LET row == s'.tx.cities[Len(s'.tx.cities)]
    IN row = NewCity(row.id, museums_data[idx],
                     ClaimedPopulation(city_populations, museums_data[idx].city))

C25_PopulationMatching == [][C25_Step]_vars

\* The part of C25 that holds: a non-empty record under exactly the city name
\* is the one used.
C25_ExactFirst ==
  [][(CityCreated /\ DictGet(city_populations, museums_data[idx].city).found) =>
       LET row == s'.tx.cities[Len(s'.tx.cities)]
       IN row = NewCity(row.id, museums_data[idx],
                        DictGet(city_populations, museums_data[idx].city))]_vars

\* C26: a City row that exists with its population fields set is never
\* overwritten: no step of a run, in the same run or in a later one, changes
\* its population, population year or external identifier, in the committed
\* store or in the transaction of the run, whatever the population source
\* returns.
PopulationSet(row) == row.population # 0

SameOrGone(before, after) ==
  \A i \in 1..Len(before) :
    (PopulationSet(before[i]) /\ i <= Len(after) /\ after[i].id = before[i].id)
      => after[i] = before[i]

C26_Step ==
  /\ \A i \in 1..Len(db.cities) :
       PopulationSet(db.cities[i]) =>
         i <= Len(db'.cities) /\ db'.cities[i] = db.cities[i]
  /\ SameOrGone(s.tx.cities, s'.tx.cities)

C26_NeverOverwritten == [][C26_Step]_vars

\* A run ends "ok" on a store whose Paris row holds older population fields
\* than the record the resolver got for the name Paris in this run, after a
\* candidate of Paris, France was processed.
C26_Witness ==
  /\ pc = "done"
  /\ result.status = "ok"
  /\ Len(db.cities) >= 1
  /\ db.cities[1] = OlderStore.cities[1]
  /\ DictGet(city_populations, Paris).found
  /\ DictGet(city_populations, Paris).population # db.cities[1].population
  /\ \E i \in obs.ok : museums_data[i].city = Paris /\ museums_data[i].country = "France"

\* C27: a City row created without population data because its lookup failed
\* gets its population fields filled in by a later run in which the
\* population source answers for that city.
\* The later run: no store error, candidates obtained, no lookup failed, and
\* the run ended "ok".
HealthyLaterRun ==
  /\ pc = "done"
  /\ prev.valid
  /\ result.status = "ok"
  /\ ~obs.fault
  /\ obs.fetched = obs.found

C27_BackFill ==
  HealthyLaterRun =>
    \A i \in 1..Len(db.cities) :
      (/\ i <= prev.cities
       /\ \E k \in 1..Len(museums_data) :
            /\ museums_data[k].city = db.cities[i].name
            /\ museums_data[k].country = db.cities[i].country)
        => PopulationSet(db.cities[i])

\* C28: in every run the schema is ensured before the museum fetch, and no
\* population lookup and no write of a City, Museum or MuseumStat happens
\* before the fetch has returned at least one candidate; so a run that ends
\* in the failed state (no candidate) leaves the rows of the store as they
\* were and issues no population lookup.
C28_Step ==
  /\ (pc' = "fetching" /\ pc # "fetching") => pc = "idle"
  /\ (pc' = "resolving" /\ pc # "resolving") =>
       pc = "fetching" /\ museums_data' # <<>>
  /\ (pc' = "persisting" /\ pc # "persisting") =>
       pc = "resolving" /\ museums_data # <<>>
  /\ (obs'.fetched # obs.fetched /\ obs'.fetched # {}) =>
       pc = "resolving" /\ museums_data # <<>>
  /\ (db' # db \/ s'.tx # s.tx \/ s'.pending # s.pending) =>
       pc = "persisting" /\ museums_data # <<>>

FailedRun == pc = "done" /\ result = NoDataSummary

C28_FailedRun ==
  FailedRun =>
    /\ museums_data = <<>>
    /\ obs.fetched = {}
    /\ city_populations = <<>>
    /\ s = ClosedSession(db)
    /\ prev.valid => Len(db.cities) = prev.cities /\ Len(db.museums) = prev.museums

C28_StageOrdering == []C28_FailedRun /\ [][C28_Step]_vars

\* A run fails for want of candidates on a store that an earlier run filled.
C28_Witness ==
  /\ FailedRun
  /\ prev.valid
  /\ prev.status = "ok"
  /\ prev.cities > 0
  /\ upstream # <<>>

\* C29: after a run that returns "ok", every museum counted in museums and
\* every city counted in cities is a row of the store after the commit, also
\* when a rollback happened during the run.  Each candidate is counted at
\* most once, so at least as many candidates as were counted have their row
\* in the store.
CandidatesWithCityRow ==
  {i \in 1..Len(museums_data) :
     CityQuery(db, museums_data[i].city, museums_data[i].country) # 0}

CandidatesWithMuseumRow ==
  {i \in 1..Len(museums_data) :
     MuseumQuery(db, museums_data[i].name,
                 CityQuery(db, museums_data[i].city, museums_data[i].country)) # 0}

C29_SummaryMatchesStore ==
  (pc = "done" /\ result.status = "ok")
    => /\ result.cities <= Cardinality(CandidatesWithCityRow)
       /\ result.museums <= Cardinality(CandidatesWithMuseumRow)

\* C30: the population stored on a newly created City row for (name, country)
\* is the record resolved for that same pair, or none: when the resolver's
\* mapping holds a non-empty record under the city name, the new row carries
\* the record of its own pair's lookup, also when another pair of the page has
\* the same city name and a different country.
OwnRecord(city_name, country) ==
  IF <<city_name, country>> \in obs.found
  THEN FetchCityPopulation(SearchCityByName(city_name, country))
  ELSE EmptyData

C30_Step ==
  (CityCreated /\ DictGet(city_populations, museums_data[idx].city).found) =>
    LET row == s'.tx.cities[Len(s'.tx.cities)]
    IN row = NewCity(row.id, museums_data[idx],
                     OwnRecord(museums_data[idx].city, museums_data[idx].country))

C30_PopulationAttribution == [][C30_Step]_vars

====
